---- MODULE Spec2Model ----
(***************************************************************************)
(* Light-chamber controller: the chamber-pi control loop with its web      *)
(* override (firmware/chamber-pi/src) and the pi0Chamber lux processor     *)
(* (software/pi0Chamber/pi_projection.py).                                 *)
(*                                                                         *)
(* Numbers.  Lux values held by chamber-pi are Python ints.  Numbers that  *)
(* arrive as text or JSON (a UART line, the pwm of a POST body) are        *)
(* modelled in tenths, so that int(float(.)) / int(.) is a real            *)
(* truncation.  The potentiometer is held as its 10-bit ADC count; the     *)
(* code's pot_value is that count divided by 1023.                         *)
(***************************************************************************)
EXTENDS Integers, Sequences, FiniteSets, TLC

\* config.py
MAX_PWM_VALUE == 1023
SCALE_CONSTANT == 2750
\* config.py sets 600; the window is kept small here
LUX_BUFFER_SIZE == 3

\* number of loop() calls followed by Spec
MaxTicks == 2

\* number of direct get_clamped_lux calls followed by SpecClamp
MaxCalls == 6

\* pi_projection.py sets WINDOW_SIZE = 600; the window is kept small here
WINDOW_SIZE == 3
\* BOUNDS_ALPHA = 0.05, in percent
BOUNDS_ALPHA_PCT == 5
\* EMAFilter(0.1): alpha = 1 / 10
EMA_ALPHA_DEN == 10
\* number of iterations of the pi_projection main loop followed by SpecProj
MaxIter == 5
\* largest CircularBuffer capacity and number of add() calls in SpecBuf
MaxCap == 3
MaxAdds == 5
\* compute_robust_bounds called on its own: longest array passed
MaxWindow == 4
\* a filter called on its own: most samples passed to process
MaxSamples == 4
\* calls of update_current_state, clients of /api/stream, and the capacity
\* of a subscriber queue (queue.Queue(maxsize=100) in the source)
MaxUpdates == 3
MaxClients == 2
QueueMax == 2
\* rows logged into lux_history by the database harness
MaxRows == 3

VARIABLES
    running,        \* main.py global `running`
    pc,             \* position of the main thread inside main_loop()
    io,             \* the IOController instance
    pwm_out,        \* last value passed to io.set_pwm
    db,             \* the system_state row of the database
    loc,            \* locals of the loop() call in progress
    current_state,  \* web_server.current_state
    post,           \* POST /api/control handlers: position and locals
    tick_outcome,   \* how the most recent loop() call ended
    ticks,          \* number of loop() calls started
    clamp_ret,      \* value returned by the last get_clamped_lux call
    clamp_calls,    \* raw values passed to get_clamped_lux, in call order
    proj,           \* pi_projection.py: the locals of main() and the PWM duty
    window,         \* a CircularBuffer used on its own
    added,          \* the values passed to window.add, in call order
    call            \* a function called on its own: arguments and result

chamberVars == <<running, pc, io, pwm_out, db, loc, current_state, post,
                 tick_outcome, ticks, clamp_ret, clamp_calls>>

projVars == <<proj, window, added, call>>

vars == <<chamberVars, projVars>>

----------------------------------------------------------------------------
(* Arithmetic helpers *)

Max2(a, b) == IF a >= b THEN a ELSE b
Min2(a, b) == IF a <= b THEN a ELSE b

\* Python int(x) of a number given in tenths: truncation toward zero
IntOfTenths(t) == IF t >= 0 THEN t \div 10 ELSE -((-t) \div 10)

----------------------------------------------------------------------------
(* IOController (io_controller.py) *)

IOInit ==
    [ sw1 |-> FALSE, sw2 |-> FALSE, pot_value |-> 0, lux_value |-> 0,
      lux_buffer |-> [i \in 0..(LUX_BUFFER_SIZE - 1) |-> 0],
      buffer_index |-> 0, buffer_count |-> 0,
      live_min |-> 0, live_max |-> 0 ]

\* the for-loop of _update_bounds over indices i..n-1
RECURSIVE ScanBounds(_, _, _, _, _)
ScanBounds(buf, i, n, lo, hi) ==
    IF i >= n THEN <<lo, hi>>
    ELSE ScanBounds(buf, i + 1, n,
                    IF buf[i] < lo THEN buf[i] ELSE lo,
                    IF buf[i] > hi THEN buf[i] ELSE hi)

update_bounds(o) ==
    IF o.buffer_count = 0 THEN o
    ELSE LET r == ScanBounds(o.lux_buffer, 1, o.buffer_count,
                             o.lux_buffer[0], o.lux_buffer[0])
         IN  [o EXCEPT !.live_min = r[1], !.live_max = r[2]]

\* variant: the index stops advancing once the buffer is full
push_lux_index_stops(o, raw_lux) ==
    [o EXCEPT !.lux_buffer[o.buffer_index] = raw_lux,
              !.buffer_index = IF o.buffer_count < LUX_BUFFER_SIZE
                               THEN (o.buffer_index + 1) % LUX_BUFFER_SIZE
                               ELSE o.buffer_index,
              !.buffer_count = IF o.buffer_count < LUX_BUFFER_SIZE
                               THEN o.buffer_count + 1
                               ELSE o.buffer_count]

\* insertion into the ring, lines 119-123
push_lux(o, raw_lux) ==
    [o EXCEPT !.lux_buffer[o.buffer_index] = raw_lux,
              !.buffer_index = (o.buffer_index + 1) % LUX_BUFFER_SIZE,
              !.buffer_count = IF o.buffer_count < LUX_BUFFER_SIZE
                               THEN o.buffer_count + 1
                               ELSE o.buffer_count]

\* the value get_clamped_lux returns, given the controller after insertion
\* and bounds update
clamp_result(o, raw_lux) ==
    IF o.buffer_count < LUX_BUFFER_SIZE THEN raw_lux
    ELSE IF raw_lux < o.live_min THEN o.live_min
    ELSE IF raw_lux > o.live_max THEN o.live_max
    ELSE raw_lux

\* variant: the bounds are recomputed before the insertion, and the value is
\* clamped to them without a warm-up bypass
get_clamped_lux_stale(o, raw_lux) ==
    LET o1 == update_bounds(o)
        o2 == push_lux(o1, raw_lux)
    IN  [io |-> o2,
         ret |-> IF raw_lux < o1.live_min THEN o1.live_min
                 ELSE IF raw_lux > o1.live_max THEN o1.live_max
                 ELSE raw_lux]

\* variant: the bounds are recomputed before the insertion
get_clamped_lux_bounds_first(o, raw_lux) ==
    LET o2 == push_lux(update_bounds(o), raw_lux)
    IN  [io |-> o2, ret |-> clamp_result(o2, raw_lux)]

\* variant: the value is clamped to the bounds of before the insertion
get_clamped_lux_previous_bounds(o, raw_lux) ==
    LET o2 == update_bounds(push_lux(o, raw_lux))
    IN  [io |-> o2,
         ret |-> clamp_result([o2 EXCEPT !.live_min = o.live_min,
                                         !.live_max = o.live_max], raw_lux)]

\* get_clamped_lux: the controller afterwards and the returned value
get_clamped_lux(o, raw_lux) ==
    LET o2 == update_bounds(push_lux(o, raw_lux))
    IN  [io |-> o2, ret |-> clamp_result(o2, raw_lux)]

\* _read_uart on one pending line; kind "none" is in_waiting = 0.
\* A line that float() cannot parse, or an empty line, leaves lux_value.
read_uart(o, line) ==
    IF line.kind = "num"
    THEN [o EXCEPT !.lux_value = IntOfTenths(line.tenths)]
    ELSE o

\* float("inf") parses, int() of it raises OverflowError, which the
\* except clause of _read_uart does not name
uart_raises(line) == line.kind = "inf"

read_switches(o, s1, s2) == [o EXCEPT !.sw1 = s1, !.sw2 = s2]

\* _read_analog: pot_value = raw / 1023.0, held as raw
read_analog(o, adc) == [o EXCEPT !.pot_value = adc]

----------------------------------------------------------------------------
(* Database.system_state (database.py) *)

DBInit == [web_manual_enabled |-> 0, web_manual_pwm |-> 0]

get_web_control_state(row) ==
    [web_manual_enabled |-> (row.web_manual_enabled # 0),
     web_manual_pwm |-> row.web_manual_pwm]

\* variant: the flag is written, the pwm column is left for a second statement
set_web_control_state_flag_only(row, enabled, pwm_value) ==
    [row EXCEPT !.web_manual_enabled = IF enabled THEN 1 ELSE 0]

set_web_control_state(row, enabled, pwm_value) ==
    [row EXCEPT !.web_manual_enabled = IF enabled THEN 1 ELSE 0,
                !.web_manual_pwm = pwm_value]

----------------------------------------------------------------------------
(* loop() of main.py, lines 101-119: the arbitration *)

\* variant: the product is truncated, without the + 0.5
pwm_of_norm_truncated(num, den) ==
    Min2((num * MAX_PWM_VALUE) \div den, MAX_PWM_VALUE)

\* int(input_norm * MAX_PWM_VALUE + 0.5), then min with MAX_PWM_VALUE,
\* for input_norm = num / den >= 0
pwm_of_norm(num, den) ==
    Min2((2 * num * MAX_PWM_VALUE + den) \div (2 * den), MAX_PWM_VALUE)

\* max(0.0, min(1.0, clamped_lux / SCALE_CONSTANT)) as a numerator over
\* SCALE_CONSTANT
lux_norm(clamped_lux) == Max2(0, Min2(SCALE_CONSTANT, clamped_lux))

\* variant: an override value left in the row keeps driving the output
\* after the override was disabled
arbitrate_sticky(web_manual_enabled, web_manual_pwm, sw1, sw2, clamped_lux, pot) ==
    IF web_manual_enabled \/ web_manual_pwm > 0
    THEN [pwm |-> web_manual_pwm, mode |-> "web_manual"]
    ELSE IF ~sw2
         THEN IF sw1
              THEN [pwm |-> pwm_of_norm(pot, 1023), mode |-> "analog"]
              ELSE [pwm |-> pwm_of_norm(lux_norm(clamped_lux), SCALE_CONSTANT),
                    mode |-> "lux"]
         ELSE [pwm |-> 0, mode |-> "lux"]

\* variant: the PWM-enable switch is tested before the web override
arbitrate_switch_first(web_manual_enabled, web_manual_pwm, sw1, sw2, clamped_lux, pot) ==
    IF sw2 THEN [pwm |-> 0, mode |-> "lux"]
    ELSE IF web_manual_enabled
    THEN [pwm |-> web_manual_pwm, mode |-> "web_manual"]
    ELSE IF sw1
         THEN [pwm |-> pwm_of_norm(pot, 1023), mode |-> "analog"]
         ELSE [pwm |-> pwm_of_norm(lux_norm(clamped_lux), SCALE_CONSTANT),
               mode |-> "lux"]

\* variant: the PWM-enable switch is not consulted
arbitrate_no_switch(web_manual_enabled, web_manual_pwm, sw1, sw2, clamped_lux, pot) ==
    IF web_manual_enabled
    THEN [pwm |-> web_manual_pwm, mode |-> "web_manual"]
    ELSE IF sw1
         THEN [pwm |-> pwm_of_norm(pot, 1023), mode |-> "analog"]
         ELSE [pwm |-> pwm_of_norm(lux_norm(clamped_lux), SCALE_CONSTANT),
               mode |-> "lux"]

arbitrate(web_manual_enabled, web_manual_pwm, sw1, sw2, clamped_lux, pot) ==
    IF web_manual_enabled
    THEN [pwm |-> web_manual_pwm, mode |-> "web_manual"]
    ELSE IF ~sw2
         THEN IF sw1
              THEN [pwm |-> pwm_of_norm(pot, 1023), mode |-> "analog"]
              ELSE [pwm |-> pwm_of_norm(lux_norm(clamped_lux), SCALE_CONSTANT),
                    mode |-> "lux"]
         ELSE [pwm |-> 0, mode |-> "lux"]

----------------------------------------------------------------------------
(* pi_projection.py.  Lux values are floats in the code; they are held here *)
(* in tenths of a lux, quotients rounded down.                             *)

\* float('nan') and float('inf'), which float() accepts in a packet field.
\* Every finite lux value of the model lies strictly between the two.
NaN == -1000000
Inf == 1000000

\* a sum of a and b with positive weights whose finite value is r
FloatSum(a, b, r) ==
    IF a = NaN \/ b = NaN THEN NaN
    ELSE IF a = Inf \/ b = Inf THEN Inf
    ELSE r

\* CircularBuffer: deque(maxlen=size)
CircularBuffer(size) == [size |-> size, buffer |-> <<>>]

\* deque(maxlen=size) raises ValueError for a negative size, and for no
\* other integer
CircularBuffer_raises(size) == size < 0

\* variant: a full buffer refuses the new item instead of dropping the oldest
CircularBuffer_add_keeps_old(cb, value) ==
    IF Len(cb.buffer) >= cb.size THEN cb
    ELSE [cb EXCEPT !.buffer = Append(cb.buffer, value)]

\* deque.append on a bounded deque: the oldest item is dropped when full,
\* and a deque of maxlen 0 keeps nothing
CircularBuffer_add(cb, value) ==
    IF cb.size = 0 THEN cb
    ELSE IF Len(cb.buffer) = cb.size
         THEN [cb EXCEPT !.buffer = Append(Tail(cb.buffer), value)]
         ELSE [cb EXCEPT !.buffer = Append(cb.buffer, value)]

CircularBuffer_get_array(cb) == cb.buffer

\* variant: a buffer counts as full as soon as it holds one item
CircularBuffer_is_full_nonempty(cb) == Len(cb.buffer) >= 1

CircularBuffer_is_full(cb) == Len(cb.buffer) = cb.size

\* EMAFilter: state None before the first sample
EMAFilter == [has_state |-> FALSE, state |-> 0]

\* EMAFilter.process: the filter afterwards; its state is the value returned
EMAFilter_process(f, value) ==
    IF ~f.has_state
    THEN [has_state |-> TRUE, state |-> value]
    ELSE [f EXCEPT !.state =
            FloatSum(value, f.state,
                (value + (EMA_ALPHA_DEN - 1) * f.state) \div EMA_ALPHA_DEN)]

\* The filters called on their own return exact fractions [num, den].
RECURSIVE SeqSum(_)
SeqSum(seq) == IF seq = <<>> THEN 0 ELSE Head(seq) + SeqSum(Tail(seq))

\* np.mean of a non-empty deque
Mean(seq) == [num |-> SeqSum(seq), den |-> Len(seq)]

\* deque.append on deque(maxlen=n), n >= 1
BoundedAppend(buf, n, value) ==
    IF Len(buf) >= n THEN Append(Tail(buf), value) ELSE Append(buf, value)

\* SMAFilter(window_size), window_size >= 1
SMAFilter(window_size) == [window_size |-> window_size, window |-> <<>>]

\* variant: nothing is ever dropped from the window
SMAFilter_process_cumulative(f, value) ==
    LET w == Append(f.window, value)
    IN  [f |-> [f EXCEPT !.window = w], ret |-> Mean(w)]

\* SMAFilter.process: the filter afterwards and the value returned
SMAFilter_process(f, value) ==
    LET w == BoundedAppend(f.window, f.window_size, value)
    IN  [f |-> [f EXCEPT !.window = w], ret |-> Mean(w)]

\* EMAFilter(alpha) for alpha = a / b, with the state held as an exact
\* fraction
EMAFilter_q(a, b) ==
    [a |-> a, b |-> b, has_state |-> FALSE, state |-> [num |-> 0, den |-> 1]]

\* variant: the weights of the new sample and of the state are exchanged
EMAFilter_process_q_swapped(f, value) ==
    IF ~f.has_state
    THEN [f EXCEPT !.has_state = TRUE, !.state = [num |-> value, den |-> 1]]
    ELSE [f EXCEPT !.state =
            [num |-> (f.b - f.a) * value * f.state.den + f.a * f.state.num,
             den |-> f.b * f.state.den]]

\* EMAFilter.process on exact fractions: the filter afterwards; its state is
\* the value returned
EMAFilter_process_q(f, value) ==
    IF ~f.has_state
    THEN [f EXCEPT !.has_state = TRUE, !.state = [num |-> value, den |-> 1]]
    ELSE [f EXCEPT !.state =
            [num |-> f.a * value * f.state.den + (f.b - f.a) * f.state.num,
             den |-> f.b * f.state.den]]

\* the window width SGFilter.__init__ ends up with, lines 76-78
SG_window(window_size) ==
    IF window_size % 2 = 0 THEN window_size + 1 ELSE window_size

\* SGFilter.__init__ raises only where deque(maxlen=window_size) does
SGFilter_raises(window_size, poly_order) == SG_window(window_size) < 0

\* _compute_coefficients for the widths 1, 3 and 5: the first row of
\* (A^T A)^-1 A^T as numerators over a common denominator.  A degree of
\* rows or more makes A^T A singular and linalg.inv raise: uniform weights.
SG_coefficients(rows, poly_order) ==
    LET uniform == [num |-> [i \in 1..rows |-> 1], den |-> rows]
        centre  == [num |-> [i \in 1..rows |->
                               IF i = (rows + 1) \div 2 THEN 1 ELSE 0],
                    den |-> 1]
    IN  IF poly_order >= rows \/ poly_order <= 1 THEN uniform
        ELSE IF poly_order = rows - 1 THEN centre
        ELSE [num |-> <<-3, 12, 17, 12, -3>>, den |-> 35]

\* SGFilter.__init__
SGFilter(window_size, poly_order) ==
    LET w == SG_window(window_size)
    IN  [window_size |-> w, poly_order |-> poly_order,
         half |-> (w - 1) \div 2, buffer |-> <<>>,
         coeffs |-> SG_coefficients(w, poly_order)]

\* np.dot(self.coeffs, data)
SG_dot(coeffs, data) ==
    [num |-> SeqSum([i \in 1..Len(data) |-> coeffs.num[i] * data[i]]),
     den |-> coeffs.den]

\* variant: the coefficients are applied from the first sample on, to the
\* buffer padded with its first sample
SGFilter_process_no_warmup(f, value) ==
    LET buf == BoundedAppend(f.buffer, f.window_size, value)
        pad == [i \in 1..f.window_size |->
                  IF i <= Len(buf) THEN buf[i] ELSE buf[1]]
    IN  [f |-> [f EXCEPT !.buffer = buf], ret |-> SG_dot(f.coeffs, pad)]

\* SGFilter.process: the filter afterwards and the value returned
SGFilter_process(f, value) ==
    LET buf == BoundedAppend(f.buffer, f.window_size, value)
    IN  [f |-> [f EXCEPT !.buffer = buf],
         ret |-> IF Len(buf) < f.window_size THEN Mean(buf)
                 ELSE SG_dot(f.coeffs, buf)]

\* ascending sort, as np.median does on its input
RECURSIVE InsertSorted(_, _)
InsertSorted(sorted, x) ==
    IF sorted = <<>> THEN <<x>>
    ELSE IF x <= Head(sorted) THEN <<x>> \o sorted
    ELSE <<Head(sorted)>> \o InsertSorted(Tail(sorted), x)

RECURSIVE SortAsc(_)
SortAsc(seq) ==
    IF seq = <<>> THEN <<>>
    ELSE InsertSorted(SortAsc(Tail(seq)), Head(seq))

\* twice np.median of a non-empty array: the middle element, or the mean of
\* the two middle elements
Median2(seq) ==
    LET srt == SortAsc(seq)
        n   == Len(seq)
    IN  IF n % 2 = 1 THEN 2 * srt[(n + 1) \div 2]
        ELSE srt[n \div 2] + srt[n \div 2 + 1]

Abs(x) == IF x < 0 THEN -x ELSE x

RECURSIVE SeqMin(_)
SeqMin(seq) ==
    IF Len(seq) = 1 THEN seq[1] ELSE Min2(seq[1], SeqMin(Tail(seq)))

RECURSIVE SeqMax(_)
SeqMax(seq) ==
    IF Len(seq) = 1 THEN seq[1] ELSE Max2(seq[1], SeqMax(Tail(seq)))

\* variant: a window without spread is answered like an empty one
compute_robust_bounds_flat_default(data_array) ==
    IF Len(data_array) = 0 THEN <<0, 10000>>
    ELSE IF \E i \in 1..Len(data_array) : data_array[i] = NaN
    THEN <<NaN, NaN>>
    ELSE IF SortAsc(data_array)[Len(data_array) \div 2 + 1] = Inf
    THEN <<Inf, Inf>>
    ELSE LET med2 == Median2(data_array)
             dev2 == [i \in 1..Len(data_array) |->
                        Abs(2 * data_array[i] - med2)]
             mad4 == Median2(dev2)
             inliers == SelectSeq(data_array,
                          LAMBDA x : /\ x # Inf
                                     /\ 20000 * Abs(2 * x - med2)
                                            <= 44478 * mad4)
         IN  IF mad4 = 0
             THEN <<0, 10000>>
             ELSE IF Len(inliers) = 0
             THEN <<med2 \div 2, med2 \div 2>>
             ELSE <<SeqMin(inliers), SeqMax(inliers)>>

\* compute_robust_bounds.  med2 is twice the median, mad4 four times the
\* MAD; sigma = 1.4826 * mad is below 1e-9 exactly when the MAD is 0, and
\* |x - median| <= 3 * 1.4826 * mad  iff  20000 * |2x - med2| <= 44478 * mad4.
\* A nan in the array makes np.median, the MAD and the threshold nan, every
\* comparison false and the inliers empty: (median, median) = (nan, nan).
\* A median of inf makes the deviations of the inf entries nan, with the same
\* effect: (inf, inf).  With a finite median the inf entries have an
\* infinite deviation, the MAD is finite and inf is never an inlier.
compute_robust_bounds(data_array) ==
    IF Len(data_array) = 0 THEN <<0, 10000>>
    ELSE IF \E i \in 1..Len(data_array) : data_array[i] = NaN
    THEN <<NaN, NaN>>
    ELSE IF SortAsc(data_array)[Len(data_array) \div 2 + 1] = Inf
    THEN <<Inf, Inf>>
    ELSE LET med2 == Median2(data_array)
             dev2 == [i \in 1..Len(data_array) |->
                        Abs(2 * data_array[i] - med2)]
             mad4 == Median2(dev2)
             inliers == SelectSeq(data_array,
                          LAMBDA x : /\ x # Inf
                                     /\ 20000 * Abs(2 * x - med2)
                                            <= 44478 * mad4)
         IN  IF mad4 = 0
             THEN <<SeqMin(data_array), SeqMax(data_array)>>
             ELSE IF Len(inliers) = 0
             THEN <<med2 \div 2, med2 \div 2>>
             ELSE <<SeqMin(inliers), SeqMax(inliers)>>

\* the inliers of line 132, data_array[np.abs(data_array - median) <=
\* threshold], for a non-empty array.  With a nan in the array, or a median
\* of inf, the threshold is nan and every comparison is false.
robust_inliers(data_array) ==
    IF \E i \in 1..Len(data_array) : data_array[i] = NaN
    THEN <<>>
    ELSE IF SortAsc(data_array)[Len(data_array) \div 2 + 1] = Inf
    THEN <<>>
    ELSE LET med2 == Median2(data_array)
             dev2 == [i \in 1..Len(data_array) |->
                        Abs(2 * data_array[i] - med2)]
             mad4 == Median2(dev2)
         IN  SelectSeq(data_array,
                       LAMBDA x : /\ x # Inf
                                  /\ 20000 * Abs(2 * x - med2)
                                         <= 44478 * mad4)

\* sigma >= 1e-9 at line 127, for a non-empty array: false when sigma is nan
robust_sigma_positive(data_array) ==
    /\ \A i \in 1..Len(data_array) : data_array[i] # NaN
    /\ SortAsc(data_array)[Len(data_array) \div 2 + 1] # Inf
    /\ Median2([i \in 1..Len(data_array) |->
                  Abs(2 * data_array[i] - Median2(data_array))]) > 0

\* map_to_led raises ValueError at int(normalized * 255) when the fraction
\* is nan: an argument is nan, or value and max_val are both inf
map_to_led_raises(value, min_val, max_val) ==
    \/ value = NaN \/ min_val = NaN \/ max_val = NaN
    \/ min_val < max_val /\ value = Inf /\ max_val = Inf

\* variant: the fraction is not clipped to [0, 1]
map_to_led_no_clip(value, min_val, max_val) ==
    IF max_val <= min_val THEN 0
    ELSE ((value - min_val) * 255) \div (max_val - min_val)

\* map_to_led: int(clip((value - min_val) / (max_val - min_val), 0, 1) * 255)
map_to_led(value, min_val, max_val) ==
    IF max_val <= min_val THEN 0
    ELSE IF max_val = Inf THEN 0
    ELSE IF value <= min_val THEN 0
    ELSE IF value >= max_val THEN 255
    ELSE ((value - min_val) * 255) \div (max_val - min_val)

\* read_potentiometer: int((pot_raw / 1023.0) * 255)
pot_brightness(pot_raw) == (pot_raw * 255) \div 1023

\* the smooth blending of one bound, lines 282-283
blend(old, new) ==
    FloatSum(old, new,
        ((100 - BOUNDS_ALPHA_PCT) * old + BOUNDS_ALPHA_PCT * new) \div 100)

\* the test of line 286, max_lux <= min_lux + 1e-3: false on nan, and
\* inf + 1e-3 is inf
span_too_small(min_lux, max_lux) ==
    IF min_lux = NaN \/ max_lux = NaN THEN FALSE
    ELSE IF min_lux = Inf THEN TRUE
    ELSE IF max_lux = Inf THEN FALSE
    ELSE 100 * max_lux <= 100 * min_lux + 1

\* line 287, min_lux + 1.0
widened(min_lux) == IF min_lux = Inf THEN Inf ELSE min_lux + 10

\* state of main() when the loop is entered; adc is None when the MCP3008
\* import failed.  duty_cycle is held as the brightness b of
\* ChangeDutyCycle((b / 255.0) * 100.0).
ProjInit(adc_present) ==
    [ filter_obj |-> EMAFilter,
      calib_buffer |-> CircularBuffer(WINDOW_SIZE),
      min_lux |-> 0, max_lux |-> 10000,
      adc |-> adc_present,
      last_lux |-> 0,
      led_switch_on |-> FALSE, auto_mode |-> FALSE,
      duty_cycle |-> 0,
      packet |-> "none",
      path |-> "start",
      iters |-> 0 ]

----------------------------------------------------------------------------
(* Inputs *)

Switches == BOOLEAN
AdcValues == {512}

\* UART lines: nothing waiting, an empty line, text float() rejects,
\* "inf", and decimal numbers (in tenths): -40.5 and 3000.0
UartNumbers == {-405, 30000}
UartLines ==
    {[kind |-> k, tenths |-> 0] : k \in {"none", "empty", "bad", "inf"}}
    \cup {[kind |-> "num", tenths |-> t] : t \in UartNumbers}

\* JSON bodies of POST /api/control, pwm in tenths.  Kind "empty" has
\* neither key, kind "bad" carries a pwm that int() rejects.
Body(k, e, p) == [kind |-> k, enabled |-> e, pwm |-> p]
\* bodies sent while the control loop runs: 300 and 5000 enabled, 300 disabled
LoopBodies ==
    {Body("full", TRUE, 3000), Body("full", TRUE, 50000),
     Body("full", FALSE, 3000), Body("bad", FALSE, 0)}
\* bodies sent to the handler on its own: -5, 300, 300.7, 5000
ReqPwm == {-50, 3000, 3007, 50000}
Bodies ==
    {Body("full", e, p) : e \in BOOLEAN, p \in ReqPwm}
    \cup {Body(k, FALSE, 0) : k \in {"empty", "bad"}}

\* serial packets "timestamp,lux1,lux2": nothing waiting, a line without
\* exactly three fields, a field that does not parse, and readings of
\* 100, 500 and 900 lux (in tenths), "nan" and "inf"
PacketLux == {1000, 9000, NaN, Inf}
Packets ==
    {[kind |-> k, lux1 |-> 0, lux2 |-> 0] : k \in {"none", "short", "badnum"}}
    \cup {[kind |-> "ok", lux1 |-> a, lux2 |-> 5000] : a \in PacketLux}
PotRaw == {0, 512, 1023}
\* values added to a CircularBuffer used on its own
BufValues == {1, 2, 3}

\* clamped lux and raw ADC readings handed to the arbitration when it is
\* evaluated on its own
ArbLux == {-40, 0, 1, 2, 1375, 2749, 2750, 3000}
ArbPot == {0, 1, 512, 1022, 1023}

\* raw_lux of the logged readings, and the time range and limit of the
\* get_history calls: no bound, 0.0 and 2.0; limits -1 to 2
HistLux == {100, 200}
HistTimes == {-1, 0, 2}
HistLimits == (-1)..2

\* SGFilter(window_size, poly_order) as constructed on its own, and the
\* samples a filter called on its own is fed
SGWindows == (-1)..4
SGOrders == 0..3
FilterValues == {0, 3, 10}
\* SMAFilter(window_size) as constructed on its own
SMAWindows == 1..3
\* EMAFilter(alpha) as constructed on its own: alpha = 1/10, 1/2 and 1
EMAAlphas == {<<1, 10>>, <<1, 2>>, <<1, 1>>}

\* raw values handed to get_clamped_lux when it is called directly
ClampLux == {-40, 100, 500, 1000}

\* elements of the arrays handed to compute_robust_bounds when it is called
\* directly: 9.0, 10.0, 11.0, 1000.0 and nan
RobustValues == {90, 100, 110, 10000, NaN}
RobustArrays == UNION {[1..n -> RobustValues] : n \in 0..MaxWindow}

\* bounds and values handed to map_to_led when it is called directly
LedBounds == {-100, 0, 1, 2550, 5000, 10000}
LedValues == LedBounds \cup {-200, 500, 2551, 20000}

----------------------------------------------------------------------------
(* State after construction and setup() *)

\* uart records what _read_uart found on the tick: "none" when nothing was
\* waiting, else the kind of the line
LocInit ==
    [web_manual_enabled |-> FALSE, web_manual_pwm |-> 0, raw_lux |-> 0,
     clamped_lux |-> 0, actual_pwm |-> 0, actual_mode |-> "lux",
     uart |-> "none"]

CurrentStateInit ==
    [raw_lux |-> 0, clamped_lux |-> 0, pwm_value |-> 0, mode |-> "lux",
     bounds_min |-> 0, bounds_max |-> 0, pot_value |-> 0,
     sw1 |-> FALSE, sw2 |-> FALSE,
     web_manual_enabled |-> FALSE, web_manual_pwm |-> 0]

PostIdle == [pc |-> "idle", kind |-> "empty", req |-> 0,
             enabled |-> FALSE, pwm |-> 0]

\* no function is being called on its own
NoCall == [fn |-> "none"]

InitCore(handlers, adcs, caps) ==
    /\ running = TRUE
    /\ pc = "while"
    /\ io = IOInit
    /\ pwm_out = 0
    /\ db = DBInit
    /\ loc = LocInit
    /\ current_state = CurrentStateInit
    /\ post = [h \in handlers |-> PostIdle]
    /\ tick_outcome = "none"
    /\ ticks = 0
    /\ clamp_ret = 0
    /\ clamp_calls = <<>>
    /\ proj \in {ProjInit(a) : a \in adcs}
    /\ window \in {CircularBuffer(n) : n \in caps}
    /\ added = <<>>

InitWith(handlers, adcs, caps) ==
    /\ InitCore(handlers, adcs, caps)
    /\ call = NoCall

----------------------------------------------------------------------------
(* main.py: signal_handler, main_loop, loop *)

signal_handler ==
    /\ running
    /\ pc # "done"
    /\ running' = FALSE
    /\ UNCHANGED <<pc, io, pwm_out, db, loc, current_state, post,
                   tick_outcome, ticks, clamp_ret, clamp_calls, projVars>>

\* `while running:`
WhileCheck ==
    /\ pc = "while"
    /\ running => ticks < MaxTicks
    /\ pc' = IF running THEN "loop" ELSE "cleanup"
    /\ ticks' = IF running THEN ticks + 1 ELSE ticks
    /\ UNCHANGED <<running, io, pwm_out, db, loc, current_state, post,
                   tick_outcome, clamp_ret, clamp_calls, projVars>>

\* io.update() as far as it gets when _read_analog raises
io_update_spi_fails(o, s1, s2) == read_switches(o, s1, s2)

\* io.update() as far as it gets when _read_uart raises
io_update_uart_fails(o, s1, s2, adc) ==
    read_analog(read_switches(o, s1, s2), adc)

io_update(o, s1, s2, adc, line) ==
    read_uart(read_analog(read_switches(o, s1, s2), adc), line)

\* loop() lines 73-122: inputs, arbitration, io.set_pwm
LoopControl(s1, s2, adc, line) ==
    /\ pc = "loop"
    /\ ~uart_raises(line)
    /\ LET o1  == io_update(io, s1, s2, adc, line)
           web == get_web_control_state(db)
           raw == o1.lux_value
           c   == get_clamped_lux(o1, raw)
           a   == arbitrate(web.web_manual_enabled, web.web_manual_pwm,
                            o1.sw1, o1.sw2, c.ret, o1.pot_value)
       IN  /\ io' = c.io
           /\ pwm_out' = a.pwm
           /\ loc' = [web_manual_enabled |-> web.web_manual_enabled,
                      web_manual_pwm |-> web.web_manual_pwm,
                      raw_lux |-> raw, clamped_lux |-> c.ret,
                      actual_pwm |-> a.pwm, actual_mode |-> a.mode,
                      uart |-> line.kind]
    /\ pc' = "publish"
    /\ UNCHANGED <<running, db, current_state, post, tick_outcome,
                   ticks, clamp_ret, clamp_calls, projVars>>

\* loop() raising inside io.update(): the SPI transfer fails
LoopSpiRaises(s1, s2) ==
    /\ pc = "loop"
    /\ io' = io_update_spi_fails(io, s1, s2)
    /\ pc' = "except"
    /\ tick_outcome' = "raised"
    /\ UNCHANGED <<running, pwm_out, db, loc, current_state, post,
                   ticks, clamp_ret, clamp_calls, projVars>>

\* loop() raising inside io.update(): OverflowError out of _read_uart
LoopUartRaises(s1, s2, adc, line) ==
    /\ pc = "loop"
    /\ uart_raises(line)
    /\ io' = io_update_uart_fails(io, s1, s2, adc)
    /\ pc' = "except"
    /\ tick_outcome' = "raised"
    /\ UNCHANGED <<running, pwm_out, db, loc, current_state, post,
                   ticks, clamp_ret, clamp_calls, projVars>>

\* variant: the mode of the snapshot is left as it was
update_current_state_keeps_mode(cs, raw_lux, clamped_lux, pwm_value, mode, bounds_min, bounds_max, pot_value, sw1, sw2) ==
    [cs EXCEPT !.raw_lux = raw_lux, !.clamped_lux = clamped_lux,
               !.pwm_value = pwm_value,
               !.bounds_min = bounds_min, !.bounds_max = bounds_max,
               !.pot_value = pot_value, !.sw1 = sw1, !.sw2 = sw2]

\* update_current_state, lines 43-55 of web_server.py
update_current_state(cs, raw_lux, clamped_lux, pwm_value, mode, bounds_min, bounds_max, pot_value, sw1, sw2) ==
    [cs EXCEPT !.raw_lux = raw_lux, !.clamped_lux = clamped_lux,
               !.pwm_value = pwm_value, !.mode = mode,
               !.bounds_min = bounds_min, !.bounds_max = bounds_max,
               !.pot_value = pot_value, !.sw1 = sw1, !.sw2 = sw2]

\* loop() lines 124-165: LCD, db.log_reading, update_current_state.  The
\* LCD text and the lux_history rows are not part of the state; no SSE
\* client is subscribed, so broadcast_sse has nothing to deliver.
LoopPublish ==
    /\ pc = "publish"
    /\ current_state' =
         update_current_state(current_state, loc.raw_lux, loc.clamped_lux,
                              loc.actual_pwm, loc.actual_mode,
                              io.live_min, io.live_max,
                              io.pot_value, io.sw1, io.sw2)
    /\ loc' = LocInit
    /\ pc' = "sleep"
    /\ tick_outcome' = "ok"
    /\ UNCHANGED <<running, io, pwm_out, db, post, ticks, clamp_ret,
                   clamp_calls, projVars>>

\* loop() raising after io.set_pwm: the LCD write or db.log_reading fails
LoopPublishRaises ==
    /\ pc = "publish"
    /\ loc' = LocInit
    /\ pc' = "except"
    /\ tick_outcome' = "raised"
    /\ UNCHANGED <<running, io, pwm_out, db, current_state, post,
                   ticks, clamp_ret, clamp_calls, projVars>>

\* time.sleep(loop_delay) returns
Sleep ==
    /\ pc = "sleep"
    /\ pc' = "while"
    /\ UNCHANGED <<running, io, pwm_out, db, loc, current_state, post,
                   tick_outcome, ticks, clamp_ret, clamp_calls, projVars>>

\* variant: the exception leaves main_loop
ExceptSleep_propagates ==
    /\ pc = "except"
    /\ pc' = "done"
    /\ UNCHANGED <<running, io, pwm_out, db, loc, current_state, post,
                   tick_outcome, ticks, clamp_ret, clamp_calls, projVars>>

\* except Exception: print, time.sleep(1)
ExceptSleep ==
    /\ pc = "except"
    /\ pc' = "while"
    /\ UNCHANGED <<running, io, pwm_out, db, loc, current_state, post,
                   tick_outcome, ticks, clamp_ret, clamp_calls, projVars>>

\* variant: the cleanup without io.set_pwm(0)
Cleanup_keeps_pwm ==
    /\ pc = "cleanup"
    /\ pc' = "done"
    /\ UNCHANGED <<running, io, pwm_out, db, loc, current_state, post,
                   tick_outcome, ticks, clamp_ret, clamp_calls, projVars>>

\* main_loop lines 181-185: io.set_pwm(0) and the cleanups
Cleanup ==
    /\ pc = "cleanup"
    /\ pwm_out' = 0
    /\ pc' = "done"
    /\ UNCHANGED <<running, io, db, loc, current_state, post,
                   tick_outcome, ticks, clamp_ret, clamp_calls, projVars>>

----------------------------------------------------------------------------
(* web_server.py: POST /api/control *)

\* variant: no upper limit
validate_pwm_no_upper(tenths) == Max2(0, IntOfTenths(tenths))

\* variant: no lower limit
validate_pwm_no_lower(tenths) == Min2(MAX_PWM_VALUE, IntOfTenths(tenths))

\* max(0, min(MAX_PWM_VALUE, int(pwm)))
validate_pwm(tenths) == Max2(0, Min2(MAX_PWM_VALUE, IntOfTenths(tenths)))

\* lines 120-128: read the body, validate, db.set_web_control_state
PostStore(h, body) ==
    /\ post[h].pc \in {"idle", "error"}
    /\ body.kind # "bad"
    /\ LET enabled == IF body.kind = "full" THEN body.enabled ELSE FALSE
           req     == IF body.kind = "full" THEN body.pwm ELSE 0
           pwm     == validate_pwm(req)
       IN  /\ db' = set_web_control_state(db, enabled, pwm)
           /\ post' = [post EXCEPT ![h] =
                         [pc |-> "stored", kind |-> body.kind, req |-> req,
                          enabled |-> enabled, pwm |-> pwm]]
    /\ UNCHANGED <<running, pc, io, pwm_out, loc, current_state,
                   tick_outcome, ticks, clamp_ret, clamp_calls, projVars>>

\* int(pwm) raises: the request fails before anything is written
PostReject(h, body) ==
    /\ post[h].pc = "idle"
    /\ body.kind = "bad"
    /\ post' = [post EXCEPT ![h] = [PostIdle EXCEPT !.pc = "error"]]
    /\ UNCHANGED <<running, pc, io, pwm_out, db, loc, current_state,
                   tick_outcome, ticks, clamp_ret, clamp_calls, projVars>>

\* lines 131-135: cache update under state_lock, then the response
PostReturn(h) ==
    /\ post[h].pc = "stored"
    /\ current_state' =
         [current_state EXCEPT !.web_manual_enabled = post[h].enabled,
                               !.web_manual_pwm = post[h].pwm]
    /\ post' = [post EXCEPT ![h] = PostIdle]
    /\ UNCHANGED <<running, pc, io, pwm_out, db, loc, tick_outcome,
                   ticks, clamp_ret, clamp_calls, projVars>>

----------------------------------------------------------------------------
(* Specification of the chamber-pi process *)

MainThread(adcs, lines) ==
    \/ WhileCheck
    \/ \E s1 \in Switches, s2 \in Switches, adc \in adcs, line \in lines :
          LoopControl(s1, s2, adc, line)
    \/ \E s1 \in Switches, s2 \in Switches : LoopSpiRaises(s1, s2)
    \/ \E s1 \in Switches, s2 \in Switches, adc \in adcs, line \in lines :
          LoopUartRaises(s1, s2, adc, line)
    \/ LoopPublish
    \/ LoopPublishRaises
    \/ Sleep
    \/ ExceptSleep
    \/ Cleanup

WebThread(bodies) ==
    \/ \E h \in DOMAIN post, body \in bodies : PostStore(h, body)
    \/ \E h \in DOMAIN post, body \in bodies : PostReject(h, body)
    \/ \E h \in DOMAIN post : PostReturn(h)

Init == InitWith({1}, {TRUE}, {1})

Next ==
    \/ signal_handler
    \/ MainThread(AdcValues, UartLines)
    \/ WebThread(LoopBodies)

Spec == Init /\ [][Next]_vars

\* The same process on fewer inputs, with the main thread scheduled fairly:
\* the operating system keeps running it and time.sleep returns.
FairAdc == {1023}
FairLines ==
    {[kind |-> "inf", tenths |-> 0], [kind |-> "num", tenths |-> 30000]}
FairBodies == {Body("full", TRUE, 3000), Body("bad", FALSE, 0)}

FairNext ==
    \/ signal_handler
    \/ MainThread(FairAdc, FairLines)
    \/ WebThread(FairBodies)

FairSpec ==
    Init /\ [][FairNext]_vars /\ WF_vars(MainThread(FairAdc, FairLines))

----------------------------------------------------------------------------
(* The POST handler on its own: two requests in flight, any body *)

InitPost == InitWith({1, 2}, {TRUE}, {1})

NextPost == WebThread(Bodies)

SpecPost == InitPost /\ [][NextPost]_vars

----------------------------------------------------------------------------
(* IOController.get_clamped_lux called directly on a fresh controller *)

ClampCall(raw_lux) ==
    /\ Len(clamp_calls) < MaxCalls
    /\ LET c == get_clamped_lux(io, raw_lux)
       IN  /\ io' = c.io
           /\ clamp_ret' = c.ret
    /\ clamp_calls' = Append(clamp_calls, raw_lux)
    /\ UNCHANGED <<running, pc, pwm_out, db, loc, current_state, post,
                   tick_outcome, ticks, projVars>>

InitClamp == InitWith({1}, {TRUE}, {1})

NextClamp == \E raw_lux \in ClampLux : ClampCall(raw_lux)

SpecClamp == InitClamp /\ [][NextClamp]_vars

----------------------------------------------------------------------------
(* pi_projection.py: one iteration of the `while True` loop of main() *)

\* auto mode, lines 254-263: no packet waiting, or not three fields
ProjAutoSkip(led, packet) ==
    /\ proj.iters < MaxIter
    /\ packet.kind \in {"none", "short"}
    /\ proj' = [proj EXCEPT !.led_switch_on = led, !.auto_mode = TRUE,
                            !.packet = packet.kind,
                            !.path = "continue", !.iters = @ + 1]
    /\ UNCHANGED <<chamberVars, window, added, call>>

\* variant: the packet is filtered and pushed as 0 before the parse fails
ProjAutoError_pushes(led, packet) ==
    /\ proj.iters < MaxIter
    /\ packet.kind = "badnum"
    /\ LET f  == EMAFilter_process(proj.filter_obj, 0)
           cb == CircularBuffer_add(proj.calib_buffer, f.state)
       IN  proj' = [proj EXCEPT !.led_switch_on = led, !.auto_mode = TRUE,
                                !.packet = packet.kind,
                                !.filter_obj = f, !.calib_buffer = cb,
                                !.path = "except", !.iters = @ + 1]
    /\ UNCHANGED <<chamberVars, window, added, call>>

\* auto mode, lines 265-267 raising, caught at line 304
ProjAutoError(led, packet) ==
    /\ proj.iters < MaxIter
    /\ packet.kind = "badnum"
    /\ proj' = [proj EXCEPT !.led_switch_on = led, !.auto_mode = TRUE,
                            !.packet = packet.kind,
                            !.path = "except", !.iters = @ + 1]
    /\ UNCHANGED <<chamberVars, window, added, call>>

\* variant: the brightness is computed before the bounds are blended
ProjAutoPacket_maps_before_blend(led, packet) ==
    /\ proj.iters < MaxIter
    /\ packet.kind = "ok"
    /\ LET raw_lux  == FloatSum(packet.lux1, packet.lux2,
                                (packet.lux1 + packet.lux2) \div 2)
           f        == EMAFilter_process(proj.filter_obj, raw_lux)
           filtered == f.state
           cb       == CircularBuffer_add(proj.calib_buffer, filtered)
           nb       == compute_robust_bounds(CircularBuffer_get_array(cb))
           full     == CircularBuffer_is_full(cb)
           min1     == IF full THEN blend(proj.min_lux, nb[1]) ELSE proj.min_lux
           max1     == IF full THEN blend(proj.max_lux, nb[2]) ELSE proj.max_lux
           max2     == IF full /\ span_too_small(min1, max1)
                       THEN widened(min1) ELSE max1
           raises   == map_to_led_raises(filtered, proj.min_lux, proj.max_lux)
           brightness == map_to_led(filtered, proj.min_lux, proj.max_lux)
       IN  proj' = [proj EXCEPT !.led_switch_on = led, !.auto_mode = TRUE,
                                !.packet = packet.kind,
                                !.filter_obj = f, !.calib_buffer = cb,
                                !.min_lux = min1, !.max_lux = max2,
                                !.duty_cycle = IF raises THEN @
                                               ELSE IF led THEN brightness
                                               ELSE 0,
                                !.path = IF raises THEN "except" ELSE "auto",
                                !.iters = @ + 1]
    /\ UNCHANGED <<chamberVars, window, added, call>>

\* auto mode, lines 265-303: a well-formed packet
ProjAutoPacket(led, packet) ==
    /\ proj.iters < MaxIter
    /\ packet.kind = "ok"
    /\ LET raw_lux  == FloatSum(packet.lux1, packet.lux2,
                                (packet.lux1 + packet.lux2) \div 2)
           f        == EMAFilter_process(proj.filter_obj, raw_lux)
           filtered == f.state
           cb       == CircularBuffer_add(proj.calib_buffer, filtered)
           nb       == compute_robust_bounds(CircularBuffer_get_array(cb))
           full     == CircularBuffer_is_full(cb)
           min1     == IF full THEN blend(proj.min_lux, nb[1]) ELSE proj.min_lux
           max1     == IF full THEN blend(proj.max_lux, nb[2]) ELSE proj.max_lux
           max2     == IF full /\ span_too_small(min1, max1)
                       THEN widened(min1) ELSE max1
           \* int() raising inside map_to_led is caught at line 304, after
           \* the filter, the buffer and the bounds were updated
           raises   == map_to_led_raises(filtered, min1, max2)
           brightness == map_to_led(filtered, min1, max2)
       IN  proj' = [proj EXCEPT !.led_switch_on = led, !.auto_mode = TRUE,
                                !.packet = packet.kind,
                                !.filter_obj = f, !.calib_buffer = cb,
                                !.min_lux = min1, !.max_lux = max2,
                                !.duty_cycle = IF raises THEN @
                                               ELSE IF led THEN brightness
                                               ELSE 0,
                                !.path = IF raises THEN "except" ELSE "auto",
                                !.iters = @ + 1]
    /\ UNCHANGED <<chamberVars, window, added, call>>

\* manual mode, lines 308-324
ProjManual(led, pot_raw) ==
    /\ proj.iters < MaxIter
    /\ LET brightness == IF proj.adc THEN pot_brightness(pot_raw) ELSE 0
       IN  proj' = [proj EXCEPT !.led_switch_on = led, !.auto_mode = FALSE,
                                !.packet = "none",
                                !.last_lux = IF proj.adc THEN pot_raw ELSE @,
                                !.duty_cycle = IF led THEN brightness ELSE 0,
                                !.path = "manual", !.iters = @ + 1]
    /\ UNCHANGED <<chamberVars, window, added, call>>

InitProj == InitWith({1}, BOOLEAN, {1})

NextProj ==
    \/ \E led \in Switches, packet \in Packets : ProjAutoSkip(led, packet)
    \/ \E led \in Switches, packet \in Packets : ProjAutoError(led, packet)
    \/ \E led \in Switches, packet \in Packets : ProjAutoPacket(led, packet)
    \/ \E led \in Switches, pot_raw \in PotRaw : ProjManual(led, pot_raw)

SpecProj == InitProj /\ [][NextProj]_vars

----------------------------------------------------------------------------
(* A CircularBuffer of any capacity 1..MaxCap used on its own *)

BufAdd(value) ==
    /\ Len(added) < MaxAdds
    /\ window' = CircularBuffer_add(window, value)
    /\ added' = Append(added, value)
    /\ UNCHANGED <<chamberVars, proj, call>>

InitBuf == InitWith({1}, {TRUE}, 1..MaxCap)

NextBuf == \E value \in BufValues : BufAdd(value)

SpecBuf == InitBuf /\ [][NextBuf]_vars

----------------------------------------------------------------------------
(* CircularBuffer(size) constructed with any size -1..MaxCap, then used *)

\* the constructor call: objs holds the object it returned, if any
NewBuffer ==
    /\ call.fn = "CircularBuffer"
    /\ ~call.done
    /\ call' = [call EXCEPT
                  !.done = TRUE,
                  !.raised = CircularBuffer_raises(call.size),
                  !.objs = IF CircularBuffer_raises(call.size) THEN <<>>
                           ELSE <<CircularBuffer(call.size)>>]
    /\ UNCHANGED <<chamberVars, proj, window, added>>

NewBufferAdd(value) ==
    /\ call.fn = "CircularBuffer"
    /\ call.done /\ ~call.raised
    /\ call.adds < MaxAdds
    /\ call' = [call EXCEPT
                  !.objs = <<CircularBuffer_add(call.objs[1], value)>>,
                  !.adds = @ + 1]
    /\ UNCHANGED <<chamberVars, proj, window, added>>

InitNew ==
    /\ InitCore({1}, {TRUE}, {1})
    /\ call \in {[fn |-> "CircularBuffer", size |-> n, done |-> FALSE,
                   raised |-> FALSE, objs |-> <<>>, adds |-> 0] :
                     n \in (-1)..MaxCap}

NextNew ==
    \/ NewBuffer
    \/ \E value \in BufValues : NewBufferAdd(value)

SpecNew == InitNew /\ [][NextNew]_vars

----------------------------------------------------------------------------
(* SGFilter(window_size, poly_order) constructed, then fed samples *)

NewSGFilter ==
    /\ call.fn = "SGFilter"
    /\ ~call.done
    /\ LET bad == SGFilter_raises(call.window_size, call.poly_order)
       IN  call' = [call EXCEPT
                      !.done = TRUE,
                      !.raised = bad,
                      !.objs = IF bad THEN <<>>
                               ELSE <<SGFilter(call.window_size,
                                               call.poly_order)>>]
    /\ UNCHANGED <<chamberVars, proj, window, added>>

SGProcess(value) ==
    /\ call.fn = "SGFilter"
    /\ call.done /\ ~call.raised
    /\ Len(call.inputs) < MaxSamples
    /\ LET r == SGFilter_process(call.objs[1], value)
       IN  call' = [call EXCEPT !.objs = <<r.f>>,
                               !.inputs = Append(@, value),
                               !.ret = r.ret]
    /\ UNCHANGED <<chamberVars, proj, window, added>>

InitSG ==
    /\ InitCore({1}, {TRUE}, {1})
    /\ call \in {[fn |-> "SGFilter", window_size |-> w, poly_order |-> p,
                   done |-> FALSE, raised |-> FALSE, objs |-> <<>>,
                   inputs |-> <<>>, ret |-> [num |-> 0, den |-> 1]] :
                     w \in SGWindows, p \in SGOrders}

NextSG ==
    \/ NewSGFilter
    \/ \E value \in FilterValues : SGProcess(value)

SpecSG == InitSG /\ [][NextSG]_vars

----------------------------------------------------------------------------
(* The arbitration of loop() evaluated on its own, as the tests do *)

ArbitrateCall(enabled, sw1, sw2, clamped_lux, pot) ==
    /\ call.fn = "arbitrate"
    /\ call' = [call EXCEPT
                  !.done = TRUE,
                  !.web_manual_enabled = enabled,
                  !.sw1 = sw1, !.sw2 = sw2,
                  !.clamped_lux = clamped_lux, !.pot = pot,
                  !.ret = arbitrate(enabled, call.web_manual_pwm, sw1, sw2,
                                    clamped_lux, pot)]
    /\ UNCHANGED <<chamberVars, proj, window, added>>

InitArb ==
    /\ InitCore({1}, {TRUE}, {1})
    /\ call = [fn |-> "arbitrate", done |-> FALSE,
               web_manual_enabled |-> FALSE, web_manual_pwm |-> 300,
               sw1 |-> FALSE, sw2 |-> FALSE, clamped_lux |-> 0, pot |-> 0,
               ret |-> [pwm |-> 0, mode |-> "lux"]]

NextArb ==
    \E enabled \in BOOLEAN, sw1 \in Switches, sw2 \in Switches,
       clamped_lux \in ArbLux, pot \in ArbPot :
          ArbitrateCall(enabled, sw1, sw2, clamped_lux, pot)

SpecArb == InitArb /\ [][NextArb]_vars

----------------------------------------------------------------------------
(* web_server.py: update_current_state called by the main thread while
   server threads iterate sse_stream() generators.  state_lock is 0 when
   free and the client number of the generator that holds it otherwise.
   Every `with sse_lock` body runs without blocking or suspending, so each
   is one step.  A snapshot is identified by its timestamp, held as the
   number of the update_current_state call that wrote it (0 for the
   snapshot the module starts with); q[c] is the queue of subscriber c and
   yielded[c] the timestamp of the last snapshot its generator yielded. *)

Clients == 1..MaxClients

\* a tick calls update_current_state and reaches `with state_lock`
UpdateStateCall ==
    /\ call.fn = "sse"
    /\ call.upd = "idle"
    /\ call.updates < MaxUpdates
    /\ call' = [call EXCEPT !.upd = "state_lock"]
    /\ UNCHANGED <<chamberVars, proj, window, added>>

\* the `with state_lock` body: acquired when free, the fields and the
\* timestamp are written, the copy is taken, and the lock is released
UpdateStateLocked ==
    /\ call.fn = "sse"
    /\ call.upd = "state_lock"
    /\ call.state_lock = 0
    /\ call' = [call EXCEPT !.upd = "broadcast",
                            !.timestamp = call.updates + 1,
                            !.state_copy = call.updates + 1]
    /\ UNCHANGED <<chamberVars, proj, window, added>>

\* variant: a subscriber whose queue is full stays subscribed
BroadcastSse_keeps_full ==
    /\ call.fn = "sse"
    /\ call.upd = "broadcast"
    /\ call' = [call EXCEPT
                  !.upd = "idle",
                  !.updates = @ + 1,
                  !.q = [c \in Clients |->
                           IF c \in call.sse_subscribers
                              /\ Len(@[c]) < QueueMax
                           THEN Append(@[c], call.state_copy) ELSE @[c]]]
    /\ UNCHANGED <<chamberVars, proj, window, added>>

\* broadcast_sse: put_nowait on every subscriber, a full queue is removed;
\* update_current_state then returns
BroadcastSse ==
    /\ call.fn = "sse"
    /\ call.upd = "broadcast"
    /\ LET dead == {c \in call.sse_subscribers : Len(call.q[c]) >= QueueMax}
       IN  call' = [call EXCEPT
                      !.upd = "idle",
                      !.updates = @ + 1,
                      !.q = [c \in Clients |->
                               IF c \in call.sse_subscribers \ dead
                               THEN Append(@[c], call.state_copy)
                               ELSE @[c]],
                      !.sse_subscribers = @ \ dead]
    /\ UNCHANGED <<chamberVars, proj, window, added>>

\* first next() on the generator: the queue is created and subscribed,
\* and the generator reaches `with state_lock`
SseOpen(c) ==
    /\ call.fn = "sse"
    /\ call.gen[c] = "new"
    /\ call' = [call EXCEPT !.gen[c] = "state_lock",
                            !.sse_subscribers = @ \cup {c}]
    /\ UNCHANGED <<chamberVars, proj, window, added>>

\* `with state_lock: yield ...`: the lock is acquired, current_state is
\* formatted, and the generator is suspended at the yield inside the with
\* block
SseInitialState(c) ==
    /\ call.fn = "sse"
    /\ call.gen[c] = "state_lock"
    /\ call.state_lock = 0
    /\ call' = [call EXCEPT !.gen[c] = "yield_initial", !.state_lock = c,
                            !.yielded[c] = call.timestamp]
    /\ UNCHANGED <<chamberVars, proj, window, added>>

\* q.get(timeout=30): the oldest queued message, or queue.Empty and the
\* keepalive; the generator is suspended at the yield
SseGet(c) ==
    /\ call.fn = "sse"
    /\ call.gen[c] = "get"
    /\ call' = IF call.q[c] # <<>>
               THEN [call EXCEPT !.gen[c] = "yield_message",
                                 !.q[c] = Tail(@),
                                 !.yielded[c] = Head(call.q[c])]
               ELSE [call EXCEPT !.gen[c] = "yield_keepalive"]
    /\ UNCHANGED <<chamberVars, proj, window, added>>

\* the consumer asks for the next chunk: the generator resumes after its
\* yield, leaving the with block if it was inside it, and reaches q.get
SseConsumerNext(c) ==
    /\ call.fn = "sse"
    /\ call.gen[c] \in {"yield_initial", "yield_message", "yield_keepalive"}
    /\ call' = [call EXCEPT
                  !.gen[c] = "get",
                  !.state_lock = IF @ = c THEN 0 ELSE @]
    /\ UNCHANGED <<chamberVars, proj, window, added>>

\* the consumer closes the generator: GeneratorExit at the yield unwinds
\* the with block and runs the finally clause
SseConsumerClose(c) ==
    /\ call.fn = "sse"
    /\ call.gen[c] \in {"yield_initial", "yield_message", "yield_keepalive"}
    /\ call' = [call EXCEPT
                  !.gen[c] = "closed",
                  !.state_lock = IF @ = c THEN 0 ELSE @,
                  !.sse_subscribers = @ \ {c}]
    /\ UNCHANGED <<chamberVars, proj, window, added>>

InitSse ==
    /\ InitCore({1}, {TRUE}, {1})
    /\ call = [fn |-> "sse", state_lock |-> 0, upd |-> "idle",
               updates |-> 0, timestamp |-> 0, state_copy |-> 0,
               gen |-> [c \in Clients |-> "new"],
               sse_subscribers |-> {},
               q |-> [c \in Clients |-> <<>>],
               yielded |-> [c \in Clients |-> 0]]

NextSse ==
    \/ UpdateStateCall
    \/ UpdateStateLocked
    \/ BroadcastSse
    \/ \E c \in Clients : SseOpen(c)
    \/ \E c \in Clients : SseInitialState(c)
    \/ \E c \in Clients : SseGet(c)
    \/ \E c \in Clients : SseConsumerNext(c)
    \/ \E c \in Clients : SseConsumerClose(c)

\* the threads of the program keep running; what a consumer of a stream
\* does, and when, is up to the consumer
SpecSse ==
    /\ InitSse
    /\ [][NextSse]_vars
    /\ WF_vars(UpdateStateLocked)
    /\ WF_vars(BroadcastSse)
    /\ \A c \in Clients :
          /\ WF_vars(SseOpen(c))
          /\ WF_vars(SseInitialState(c))
          /\ WF_vars(SseGet(c))

----------------------------------------------------------------------------
(* database.py: the Database used on its own, as test_database does.
   lux_history is the table in rowid order, each row with its id, its
   timestamp and its raw_lux; system_state is the table keyed by id.
   time.time() is a clock that moves forward between two log_reading
   calls. *)

\* start_time / end_time not given (None)
NoTime == -1

\* the tables after _init_db on a new file
Database == [lux_history |-> <<>>, system_state |-> (1 :> DBInit)]

\* INSERT INTO lux_history at time.time() = now
Database_log_reading(d, now, raw_lux) ==
    [d EXCEPT !.lux_history =
        Append(@, [id |-> Len(@) + 1, timestamp |-> now,
                   raw_lux |-> raw_lux])]

\* ORDER BY timestamp DESC over a set of rows
RECURSIVE OrderByTimestampDesc(_)
OrderByTimestampDesc(rows) ==
    IF rows = {} THEN <<>>
    ELSE LET top == CHOOSE r \in rows :
                       \A x \in rows :
                          \/ x.timestamp < r.timestamp
                          \/ x.timestamp = r.timestamp /\ x.id <= r.id
         IN  <<top>> \o OrderByTimestampDesc(rows \ {top})

\* LIMIT n of SQLite: a negative n is no limit
SqlLimit(seq, n) ==
    IF n < 0 \/ n >= Len(seq) THEN seq ELSE SubSeq(seq, 1, n)

Reversed(seq) == [i \in 1..Len(seq) |-> seq[Len(seq) + 1 - i]]

\* get_history: `if start_time:` and `if end_time:` add a condition only
\* for a value that is neither None nor 0
Database_get_history(d, start_time, end_time, limit) ==
    LET use_start == start_time # NoTime /\ start_time # 0
        use_end   == end_time # NoTime /\ end_time # 0
        rows == {d.lux_history[i] : i \in 1..Len(d.lux_history)}
        hit  == {r \in rows : /\ use_start => r.timestamp >= start_time
                              /\ use_end => r.timestamp <= end_time}
    IN  Reversed(SqlLimit(OrderByTimestampDesc(hit), limit))

\* get_latest_reading: the row, or <<>> for None
Database_get_latest_reading(d) ==
    LET rows == {d.lux_history[i] : i \in 1..Len(d.lux_history)}
    IN  SqlLimit(OrderByTimestampDesc(rows), 1)

\* UPDATE system_state ... WHERE id = 1
Database_set_web_control_state(d, enabled, pwm_value) ==
    [d EXCEPT !.system_state =
        [i \in DOMAIN @ |->
           IF i = 1 THEN set_web_control_state(@[i], enabled, pwm_value)
           ELSE @[i]]]

\* SELECT * FROM system_state WHERE id = 1, or the default without a row
Database_get_web_control_state(d) ==
    IF 1 \in DOMAIN d.system_state
    THEN get_web_control_state(d.system_state[1])
    ELSE [web_manual_enabled |-> FALSE, web_manual_pwm |-> 0]

DbLogReading(raw_lux) ==
    /\ call.fn = "Database"
    /\ Len(call.db.lux_history) < MaxRows
    /\ call' = [call EXCEPT
                  !.op = "log_reading",
                  !.clock = @ + 1,
                  !.db = Database_log_reading(@, call.clock + 1, raw_lux),
                  !.ret = <<>>]
    /\ UNCHANGED <<chamberVars, proj, window, added>>

DbGetLatestReading ==
    /\ call.fn = "Database"
    /\ call' = [call EXCEPT
                  !.op = "get_latest_reading",
                  !.ret = Database_get_latest_reading(call.db)]
    /\ UNCHANGED <<chamberVars, proj, window, added>>

DbGetHistory(start_time, end_time, limit) ==
    /\ call.fn = "Database"
    /\ call' = [call EXCEPT
                  !.op = "get_history",
                  !.start_time = start_time, !.end_time = end_time,
                  !.limit = limit,
                  !.ret = Database_get_history(call.db, start_time,
                                               end_time, limit)]
    /\ UNCHANGED <<chamberVars, proj, window, added>>

DbSetWebControlState(enabled, pwm_value) ==
    /\ call.fn = "Database"
    /\ call' = [call EXCEPT
                  !.op = "set_web_control_state",
                  !.written = [web_manual_enabled |-> enabled,
                               web_manual_pwm |-> pwm_value],
                  !.db = Database_set_web_control_state(@, enabled,
                                                        pwm_value),
                  !.ret = <<>>]
    /\ UNCHANGED <<chamberVars, proj, window, added>>

DbGetWebControlState ==
    /\ call.fn = "Database"
    /\ call' = [call EXCEPT
                  !.op = "get_web_control_state",
                  !.ret = <<Database_get_web_control_state(call.db)>>]
    /\ UNCHANGED <<chamberVars, proj, window, added>>

InitDb ==
    /\ InitCore({1}, {TRUE}, {1})
    /\ call = [fn |-> "Database", db |-> Database, clock |-> 0,
               op |-> "init", start_time |-> NoTime, end_time |-> NoTime,
               limit |-> 0,
               written |-> [web_manual_enabled |-> FALSE,
                            web_manual_pwm |-> 0],
               ret |-> <<>>]

NextDb ==
    \/ \E raw_lux \in HistLux : DbLogReading(raw_lux)
    \/ DbGetLatestReading
    \/ \E start_time \in HistTimes, end_time \in HistTimes,
          limit \in HistLimits :
             DbGetHistory(start_time, end_time, limit)
    \/ \E enabled \in BOOLEAN, pwm_value \in {0, 300} :
          DbSetWebControlState(enabled, pwm_value)
    \/ DbGetWebControlState

SpecDb == InitDb /\ [][NextDb]_vars

----------------------------------------------------------------------------
(* gg.py: one iteration of the `while True` loop of main().  duty_cycle is
   held as the brightness b of ChangeDutyCycle((b / 255.0) * 100.0), lux in
   tenths; valid is the brightness derived from the last valid packet, -1
   before the first. *)

\* lines 126-127: int((avg_lux / 1000.0) * 255) clamped to 0..255
gg_brightness(avg_lux) ==
    IF avg_lux <= 0 THEN 0 ELSE Min2(255, (avg_lux * 255) \div 10000)

\* int() raises on nan (ValueError) and on inf (OverflowError)
gg_brightness_raises(avg_lux) == avg_lux = NaN \/ avg_lux = Inf

\* auto mode: nothing waiting, a line without three fields, or a field
\* float() rejects; brightness keeps the 0 of line 110
GgAutoSkip(led, packet) ==
    /\ call.fn = "gg"
    /\ call.iters < MaxIter
    /\ packet.kind \in {"none", "short", "badnum"}
    /\ call' = [call EXCEPT !.led_switch_on = led, !.auto_mode = TRUE,
                            !.packet = packet.kind,
                            !.duty_cycle = 0,
                            !.iters = @ + 1]
    /\ UNCHANGED <<chamberVars, proj, window, added>>

\* auto mode: a packet with three fields that parse
GgAutoPacket(led, packet) ==
    /\ call.fn = "gg"
    /\ call.iters < MaxIter
    /\ packet.kind = "ok"
    /\ LET avg_lux == FloatSum(packet.lux1, packet.lux2,
                               (packet.lux1 + packet.lux2) \div 2)
           raises  == gg_brightness_raises(avg_lux)
           brightness == IF raises THEN 0 ELSE gg_brightness(avg_lux)
       IN  call' = [call EXCEPT !.led_switch_on = led, !.auto_mode = TRUE,
                                !.packet = IF raises THEN "raised" ELSE "ok",
                                !.last_lux = avg_lux,
                                !.valid = IF raises THEN @ ELSE brightness,
                                !.duty_cycle = IF led THEN brightness ELSE 0,
                                !.iters = @ + 1]
    /\ UNCHANGED <<chamberVars, proj, window, added>>

\* manual mode: the potentiometer, or 0 without an ADC
GgManual(led, pot_raw) ==
    /\ call.fn = "gg"
    /\ call.iters < MaxIter
    /\ LET brightness == IF call.adc THEN pot_brightness(pot_raw) ELSE 0
       IN  call' = [call EXCEPT !.led_switch_on = led, !.auto_mode = FALSE,
                                !.packet = "none",
                                !.last_lux = IF call.adc THEN pot_raw ELSE @,
                                !.duty_cycle = IF led THEN brightness ELSE 0,
                                !.iters = @ + 1]
    /\ UNCHANGED <<chamberVars, proj, window, added>>

InitGg ==
    /\ InitCore({1}, {TRUE}, {1})
    /\ call \in {[fn |-> "gg", adc |-> a, last_lux |-> 0, valid |-> -1,
                  led_switch_on |-> FALSE, auto_mode |-> FALSE,
                  packet |-> "none", duty_cycle |-> 0, iters |-> 0] :
                    a \in BOOLEAN}

NextGg ==
    \/ \E led \in Switches, packet \in Packets : GgAutoSkip(led, packet)
    \/ \E led \in Switches, packet \in Packets : GgAutoPacket(led, packet)
    \/ \E led \in Switches, pot_raw \in PotRaw : GgManual(led, pot_raw)

SpecGg == InitGg /\ [][NextGg]_vars

----------------------------------------------------------------------------
(* SMAFilter(window_size) fed samples *)

SMAProcess(value) ==
    /\ call.fn = "SMAFilter"
    /\ Len(call.inputs) < MaxSamples
    /\ LET r == SMAFilter_process(call.obj, value)
       IN  call' = [call EXCEPT !.obj = r.f,
                               !.inputs = Append(@, value),
                               !.ret = r.ret]
    /\ UNCHANGED <<chamberVars, proj, window, added>>

InitSMA ==
    /\ InitCore({1}, {TRUE}, {1})
    /\ call \in {[fn |-> "SMAFilter", obj |-> SMAFilter(w),
                   inputs |-> <<>>, ret |-> [num |-> 0, den |-> 1]] :
                     w \in SMAWindows}

NextSMA == \E value \in FilterValues : SMAProcess(value)

SpecSMA == InitSMA /\ [][NextSMA]_vars

----------------------------------------------------------------------------
(* EMAFilter(alpha) fed samples *)

EMAProcess(value) ==
    /\ call.fn = "EMAFilter"
    /\ Len(call.inputs) < MaxSamples
    /\ LET f == EMAFilter_process_q(call.obj, value)
       IN  call' = [call EXCEPT !.obj = f,
                               !.inputs = Append(@, value),
                               !.ret = f.state]
    /\ UNCHANGED <<chamberVars, proj, window, added>>

InitEMA ==
    /\ InitCore({1}, {TRUE}, {1})
    /\ call \in {[fn |-> "EMAFilter", obj |-> EMAFilter_q(al[1], al[2]),
                   inputs |-> <<>>, ret |-> [num |-> 0, den |-> 1]] :
                     al \in EMAAlphas}

NextEMA == \E value \in FilterValues : EMAProcess(value)

SpecEMA == InitEMA /\ [][NextEMA]_vars

----------------------------------------------------------------------------
(* compute_robust_bounds called on its own, on any array of RobustArrays *)

RobustCall ==
    /\ call.fn = "compute_robust_bounds"
    /\ ~call.done
    /\ call' = [call EXCEPT !.done = TRUE,
                            !.ret = compute_robust_bounds(call.data_array)]
    /\ UNCHANGED <<chamberVars, proj, window, added>>

InitRobust ==
    /\ InitCore({1}, {TRUE}, {1})
    /\ call \in {[fn |-> "compute_robust_bounds", data_array |-> d,
                   done |-> FALSE, ret |-> <<0, 0>>] : d \in RobustArrays}

NextRobust == RobustCall

SpecRobust == InitRobust /\ [][NextRobust]_vars

----------------------------------------------------------------------------
(* map_to_led called repeatedly with one pair of bounds *)

MapToLedCall(value) ==
    /\ call.fn = "map_to_led"
    /\ call' = [call EXCEPT !.done = TRUE,
                            !.value = value,
                            !.ret = map_to_led(value, call.min_val,
                                               call.max_val)]
    /\ UNCHANGED <<chamberVars, proj, window, added>>

InitLed ==
    /\ InitCore({1}, {TRUE}, {1})
    /\ call \in {[fn |-> "map_to_led", min_val |-> lo, max_val |-> hi,
                   value |-> 0, done |-> FALSE, ret |-> 0] :
                     lo \in LedBounds, hi \in LedBounds}

NextLed == \E value \in LedValues : MapToLedCall(value)

SpecLed == InitLed /\ [][NextLed]_vars

----------------------------------------------------------------------------
(* Properties of the arbitration in loop() *)

\* the step of loop() that ends in io.set_pwm
IsControlStep == pc = "loop" /\ pc' = "publish"

\* C1: on every tick that reads web_manual_enabled = true from the
\* database, the value passed to io.set_pwm is the web_manual_pwm read,
\* whatever the switches, the lux value and the potentiometer are.
C1_OverrideWins ==
    [][(IsControlStep /\ db.web_manual_enabled # 0)
          => pwm_out' = db.web_manual_pwm]_vars

\* an override tick with the PWM-enable switch off commands 300
C1_Witness ==
    /\ pc = "publish"
    /\ loc.web_manual_enabled /\ loc.web_manual_pwm = 300
    /\ io.sw2
    /\ pwm_out = 300

\* C2: on every tick that reads web_manual_enabled = false and finds the
\* PWM-enable switch off (sw2 true), the value passed to io.set_pwm is 0.
C2_PhysicalOff ==
    [][(IsControlStep /\ db.web_manual_enabled = 0 /\ io'.sw2)
          => pwm_out' = 0]_vars

\* such a tick with the lux above SCALE_CONSTANT and the pot at mid scale
C2_Witness ==
    /\ pc = "publish"
    /\ ~loc.web_manual_enabled
    /\ io.sw2
    /\ loc.raw_lux >= SCALE_CONSTANT /\ io.pot_value = 512
    /\ pwm_out = 0

\* C4: every value passed to io.set_pwm is an integer in 0..MAX_PWM_VALUE.
C4_PwmInRange == pwm_out \in 0..MAX_PWM_VALUE

\* a tick on a negative lux driven by the override after a POST asked
\* for 5000
C4_Witness ==
    /\ pc = "publish"
    /\ loc.web_manual_enabled
    /\ loc.raw_lux < 0
    /\ pwm_out = MAX_PWM_VALUE

----------------------------------------------------------------------------
(* Properties of main_loop() *)

C7_TickExceptionCaught ==
    /\ [][(pc # "except" /\ pc' = "except") => running' = running]_vars
    /\ [][pc = "except" => pc' \in {"except", "while"}]_vars
    /\ (pc = "except" /\ ticks < MaxTicks) ~> (pc = "loop" \/ ~running)

\* a tick that starts after a tick that raised
C7_Witness ==
    /\ pc = "loop"
    /\ tick_outcome = "raised"
    /\ running

----------------------------------------------------------------------------
(* Properties of POST /api/control *)

\* max(0, min(1023, r)) for a whole number r given in tenths
ClampedRequest(tenths) ==
    IF tenths > 10 * MAX_PWM_VALUE THEN MAX_PWM_VALUE
    ELSE IF tenths < 0 THEN 0
    ELSE tenths \div 10

----------------------------------------------------------------------------
(* Properties of IOController.get_clamped_lux *)

SetMin(S) == CHOOSE x \in S : \A y \in S : x <= y
SetMax(S) == CHOOSE x \in S : \A y \in S : x >= y

\* the last min(k, LUX_BUFFER_SIZE) values passed to get_clamped_lux
LastPushed ==
    LET k == Len(clamp_calls)
    IN  {clamp_calls[i] : i \in (Max2(0, k - LUX_BUFFER_SIZE) + 1)..k}

\* C8: while fewer than LUX_BUFFER_SIZE samples have been pushed, the one
\* of this call included, get_clamped_lux returns its argument.
C8_BypassBeforeFull ==
    (Len(clamp_calls) >= 1 /\ Len(clamp_calls) < LUX_BUFFER_SIZE)
       => clamp_ret = clamp_calls[Len(clamp_calls)]

\* a call during warm-up with a value outside everything pushed before
C8_Witness ==
    /\ Len(clamp_calls) = LUX_BUFFER_SIZE - 1
    /\ clamp_calls[1] = 100
    /\ clamp_calls[Len(clamp_calls)] = 1000
    /\ clamp_ret = 1000

\* C9: after every call, live_min and live_max are the minimum and maximum
\* of the last min(k, LUX_BUFFER_SIZE) values pushed, this call's included.
C9_BoundsOfWindow ==
    Len(clamp_calls) >= 1
       => /\ io.live_min = SetMin(LastPushed)
          /\ io.live_max = SetMax(LastPushed)

\* the window has wrapped, the evicted first sample was the largest, and
\* the sample of this call is the new minimum
C9_Witness ==
    /\ Len(clamp_calls) > LUX_BUFFER_SIZE
    /\ clamp_calls[1] = 1000
    /\ io.live_max < 1000
    /\ clamp_calls[Len(clamp_calls)] = -40
    /\ io.live_min = -40

----------------------------------------------------------------------------
(* Properties of pi_projection.py *)

\* C3: after every loop iteration that reads the LED on/off switch as off,
\* the PWM duty cycle in effect is 0, in auto mode and in manual mode,
\* whether or not a well-formed packet was available.
C3_SwitchOffDutyZero ==
    (proj.path # "start" /\ ~proj.led_switch_on) => proj.duty_cycle = 0

\* C10: a CircularBuffer of capacity N never holds more than N values; once
\* at least N values have been added it holds exactly the last N added, in
\* arrival order; is_full() is true exactly when at least N were added.
C10_WindowEviction ==
    LET n == window.size
        k == Len(added)
    IN  /\ Len(CircularBuffer_get_array(window)) <= n
        /\ k >= n => CircularBuffer_get_array(window) = SubSeq(added, k - n + 1, k)
        /\ CircularBuffer_is_full(window) <=> k >= n

\* a buffer of capacity 2 or more after more adds than its capacity, the
\* first value added being gone
C10_Witness ==
    /\ window.size >= 2
    /\ Len(added) >= window.size + 2
    /\ added[1] = 3
    /\ \A i \in 1..Len(window.buffer) : window.buffer[i] # 3

----------------------------------------------------------------------------
(* Properties of compute_robust_bounds *)

\* a finished call of compute_robust_bounds on a non-empty array
RobustDone ==
    /\ call.fn = "compute_robust_bounds"
    /\ call.done
    /\ Len(call.data_array) >= 1

\* C11: compute_robust_bounds applied to a non-empty window whose values
\* are all equal to v returns (v, v).
C11_UniformBounds ==
    (RobustDone /\ \A i \in 1..Len(call.data_array) :
                      call.data_array[i] = call.data_array[1])
       => call.ret = <<call.data_array[1], call.data_array[1]>>

\* a call on three or more values, all 10000
C11_Witness ==
    /\ RobustDone
    /\ Len(call.data_array) >= 3
    /\ \A i \in 1..Len(call.data_array) : call.data_array[i] = 10000
    /\ call.ret = <<10000, 10000>>

\* C12: compute_robust_bounds applied to a window of three or more values,
\* all 100 except one 10000, returns 100 as the upper bound.
C12_OutlierExcluded ==
    (/\ RobustDone
     /\ Len(call.data_array) >= 3
     /\ Cardinality({i \in 1..Len(call.data_array) :
                       call.data_array[i] = 10000}) = 1
     /\ \A i \in 1..Len(call.data_array) :
            call.data_array[i] \in {100, 10000})
       => call.ret[2] = 100

\* C32: for every non-empty window the inlier subset
\* {xi : |xi - median| <= 3 * 1.4826 * MAD} is non-empty, so the branch
\* returning (median, median) is not taken, and whenever sigma >= 1e-9
\* both returned bounds are elements of the window with
\* low <= median <= high.
C32_InliersNonEmpty ==
    RobustDone
       => /\ Len(robust_inliers(call.data_array)) >= 1
          /\ robust_sigma_positive(call.data_array)
                => /\ \E i \in 1..Len(call.data_array) :
                         call.ret[1] = call.data_array[i]
                   /\ \E i \in 1..Len(call.data_array) :
                         call.ret[2] = call.data_array[i]
                   /\ 2 * call.ret[1] <= Median2(call.data_array)
                   /\ Median2(call.data_array) <= 2 * call.ret[2]

----------------------------------------------------------------------------
(* Properties of map_to_led *)

\* a finished call of map_to_led with min_val < max_val
LedDone ==
    /\ call.fn = "map_to_led"
    /\ call.done
    /\ call.min_val < call.max_val

\* C13: with min_val < max_val, map_to_led answers 0 at value = min_val
\* and 255 at value = max_val, every answer is in 0..255, and of two calls
\* with the same bounds the one with the larger value answers at least as
\* much.
C13_MapToLed ==
    /\ [](LedDone => /\ call.ret \in 0..255
                     /\ call.value = call.min_val => call.ret = 0
                     /\ call.value = call.max_val => call.ret = 255)
    /\ [][(LedDone /\ call'.value >= call.value)
             => call'.ret >= call.ret]_vars

\* a value strictly inside the bounds mapped strictly inside 0..255
C13_Witness ==
    /\ LedDone
    /\ call.min_val < call.value /\ call.value < call.max_val
    /\ call.ret > 0 /\ call.ret < 255

----------------------------------------------------------------------------
(* Properties of the bounds kept by the loop of pi_projection.py *)

\* a < b as Python decides it on floats: false when either side is nan
FloatLess(a, b) == a # NaN /\ b # NaN /\ a < b

\* C14: in every state of the main loop the persistent bounds satisfy
\* min_lux < max_lux, so that map_to_led never divides by zero and never
\* takes its max_val <= min_val branch.
C14_BoundsOrdered == FloatLess(proj.min_lux, proj.max_lux)

\* the bounds main() starts with, lines 222-223
DefaultBounds == <<0, 10000>>

\* C15: while fewer than WINDOW_SIZE filtered samples have been pushed into
\* calib_buffer the bounds are the defaults (0.0, 1000.0); the iteration
\* whose push fills the window is the first to update them, to the blend of
\* the defaults with the robust bounds of the window.
C15_DefaultUntilFull ==
    /\ [](Len(proj.calib_buffer.buffer) < WINDOW_SIZE
            => <<proj.min_lux, proj.max_lux>> = DefaultBounds)
    /\ [][(/\ Len(proj.calib_buffer.buffer) < WINDOW_SIZE
           /\ Len(proj'.calib_buffer.buffer) = WINDOW_SIZE)
          => LET nb == compute_robust_bounds(proj'.calib_buffer.buffer)
             IN  /\ proj'.min_lux = blend(DefaultBounds[1], nb[1])
                 /\ proj'.max_lux \in {blend(DefaultBounds[2], nb[2]),
                                       widened(proj'.min_lux)}]_vars

\* the window has just been filled by WINDOW_SIZE packets in a row and both
\* bounds have left their defaults
C15_Witness ==
    /\ proj.iters = WINDOW_SIZE
    /\ Len(proj.calib_buffer.buffer) = WINDOW_SIZE
    /\ proj.min_lux > DefaultBounds[1]
    /\ proj.max_lux < DefaultBounds[2]

\* C33: an auto-mode iteration on a valid packet works in this order: the
\* two readings are averaged, the average is filtered, the filtered value
\* is pushed into calib_buffer, then, only if the window is full after
\* that push, each bound is blended as 0.95 * old + 0.05 * robust bound of
\* the window (the upper bound then kept at least a sensible span above
\* the lower), and the brightness is computed from the filtered value and
\* the bounds as they are after this blend.
C33_IterationOrder ==
    [][(/\ proj'.iters = proj.iters + 1
        /\ proj'.auto_mode
        /\ proj'.packet = "ok")
       => LET filtered == proj'.filter_obj.state
              arr      == proj'.calib_buffer.buffer
              nb       == compute_robust_bounds(arr)
          IN  /\ \E p \in Packets :
                    /\ p.kind = "ok"
                    /\ proj'.filter_obj =
                          EMAFilter_process(proj.filter_obj,
                              FloatSum(p.lux1, p.lux2,
                                       (p.lux1 + p.lux2) \div 2))
              /\ arr = IF Len(proj.calib_buffer.buffer) = WINDOW_SIZE
                       THEN Append(Tail(proj.calib_buffer.buffer), filtered)
                       ELSE Append(proj.calib_buffer.buffer, filtered)
              /\ IF Len(arr) = WINDOW_SIZE
                 THEN /\ proj'.min_lux = blend(proj.min_lux, nb[1])
                      /\ proj'.max_lux \in {blend(proj.max_lux, nb[2]),
                                            widened(proj'.min_lux)}
                 ELSE /\ proj'.min_lux = proj.min_lux
                      /\ proj'.max_lux = proj.max_lux
              /\ proj'.path = "auto"
                    => proj'.duty_cycle =
                          IF proj'.led_switch_on
                          THEN map_to_led(filtered, proj'.min_lux,
                                          proj'.max_lux)
                          ELSE 0]_vars

\* the iteration whose push fills the window with 300, 300 and 340 lux: the
\* bounds move from (0, 1000) to (15, 967), and 340 lux maps to 87 with the
\* new bounds where the old ones would give 86
C33_Witness ==
    /\ proj.path = "auto" /\ proj.packet = "ok"
    /\ proj.led_switch_on
    /\ proj.filter_obj.state = 3400
    /\ proj.calib_buffer.buffer = <<3000, 3000, 3400>>
    /\ proj.min_lux = 150 /\ proj.max_lux = 9670
    /\ map_to_led(3400, 0, 10000) = 86
    /\ proj.duty_cycle = 87

\* C19: an auto-mode iteration that finds no packet waiting, a packet
\* without exactly three fields or a field that does not parse leaves the
\* filter state, the contents of calib_buffer and the bounds as they were,
\* and control is back at the top of the loop.
C19_BadPacketSkipped ==
    [][(/\ proj'.iters = proj.iters + 1
        /\ proj'.auto_mode
        /\ proj'.packet \in {"none", "short", "badnum"})
       => /\ proj'.filter_obj = proj.filter_obj
          /\ proj'.calib_buffer = proj.calib_buffer
          /\ proj'.min_lux = proj.min_lux
          /\ proj'.max_lux = proj.max_lux
          /\ proj'.path \in {"continue", "except"}]_vars

\* a packet that did not parse arrived when the window was full and the
\* bounds had been blended
C19_Witness ==
    /\ proj.auto_mode
    /\ proj.packet = "badnum"
    /\ proj.path = "except"
    /\ CircularBuffer_is_full(proj.calib_buffer)
    /\ proj.filter_obj.has_state
    /\ proj.min_lux > DefaultBounds[1]

----------------------------------------------------------------------------
(* Properties of the override state shared by the web server and loop() *)

\* C16: the system_state row only ever changes to the (enabled, pwm) pair
\* of one single set_web_control_state call, and loop() obtains both values
\* from one reading of that row: the pair it works with is the initial one
\* or the pair of one write, never the flag of one write and the pwm of
\* another.
C16_AtomicSnapshot ==
    /\ [][db' # db
            => \E h \in DOMAIN post :
                  /\ post[h].pc # "stored" /\ post'[h].pc = "stored"
                  /\ db'.web_manual_enabled # 0 <=> post'[h].enabled
                  /\ db'.web_manual_pwm = post'[h].pwm]_vars
    /\ [][IsControlStep
            => /\ loc'.web_manual_enabled <=> db.web_manual_enabled # 0
               /\ loc'.web_manual_pwm = db.web_manual_pwm]_vars

\* loop() works with the pair (false, 300) of an earlier POST while a later
\* POST has already stored (true, 1023)
C16_Witness ==
    /\ pc = "publish"
    /\ ~loc.web_manual_enabled /\ loc.web_manual_pwm = 300
    /\ post[1].pc = "stored"
    /\ post[1].enabled /\ post[1].pwm = MAX_PWM_VALUE
    /\ db.web_manual_enabled = 1 /\ db.web_manual_pwm = MAX_PWM_VALUE

\* C17: the arbitration keeps no state of its own.  The row holds the pair
\* of the last POST that stored; a tick that reads the override enabled
\* with pwm v commands v, and a tick that reads it disabled commands the
\* value its own switches, clamped lux and potentiometer determine,
\* whatever was commanded or stored before.
C17_NoLatchedOverride ==
    /\ [][\A h \in DOMAIN post :
            (post[h].pc # "stored" /\ post'[h].pc = "stored")
               => db' = [web_manual_enabled |->
                            IF post'[h].enabled THEN 1 ELSE 0,
                         web_manual_pwm |-> post'[h].pwm]]_vars
    /\ [][IsControlStep
            => pwm_out' =
                 IF db.web_manual_enabled = 1 THEN db.web_manual_pwm
                 ELSE IF io'.sw2 THEN 0
                 ELSE IF io'.sw1 THEN pwm_of_norm(io'.pot_value, 1023)
                 ELSE pwm_of_norm(lux_norm(loc'.clamped_lux),
                                  SCALE_CONSTANT)]_vars

\* the tick after an override tick that commanded 300: a POST has disabled
\* the override in between, 300 is still in the row, and the potentiometer
\* at mid scale commands 512
C17_Witness ==
    /\ pc = "publish"
    /\ current_state.mode = "web_manual" /\ current_state.pwm_value = 300
    /\ db.web_manual_enabled = 0 /\ db.web_manual_pwm = 300
    /\ io.sw1 /\ ~io.sw2 /\ io.pot_value = 512
    /\ pwm_out = 512

----------------------------------------------------------------------------
(* Properties of the lux window of chamber-pi *)

\* C18: a tick on which the UART delivers no line, an empty line or a line
\* that does not parse pushes nothing into lux_buffer: the buffer, its
\* index and count, lux_value, live_min and live_max are as before the tick.
C18_NoLineNoPush ==
    [][(IsControlStep /\ loc'.uart \in {"none", "empty", "bad"})
          => /\ io'.lux_buffer = io.lux_buffer
             /\ io'.buffer_index = io.buffer_index
             /\ io'.buffer_count = io.buffer_count
             /\ io'.lux_value = io.lux_value
             /\ io'.live_min = io.live_min
             /\ io'.live_max = io.live_max]_vars

----------------------------------------------------------------------------
(* Properties of the CircularBuffer constructor *)

\* C20: CircularBuffer(size) with size 0 or negative is rejected at
\* construction, and no CircularBuffer object reports is_full() while it
\* holds no sample.
C20_ZeroCapacityRejected ==
    (call.fn = "CircularBuffer" /\ call.done)
       => /\ call.size <= 0 => call.raised
          /\ \A i \in 1..Len(call.objs) :
                ~(/\ CircularBuffer_is_full(call.objs[i])
                  /\ Len(CircularBuffer_get_array(call.objs[i])) = 0)

----------------------------------------------------------------------------
(* Properties of the filters of pi_projection.py *)

\* C21: SGFilter(window_size, poly_order) with an even window_size, or with
\* poly_order >= window_size, is rejected at construction, and every
\* SGFilter object has the window_size that was asked for.
C21_SGConfigRejected ==
    (call.fn = "SGFilter" /\ call.done)
       => /\ (call.window_size % 2 = 0 \/ call.poly_order >= call.window_size)
                => call.raised
          /\ \A i \in 1..Len(call.objs) :
                call.objs[i].window_size = call.window_size

\* C23: every SGFilter.process call made while fewer than window_size
\* samples have been received, the current one included, returns the
\* arithmetic mean of all samples received so far.
C23_SGWarmupMean ==
    (/\ call.fn = "SGFilter"
     /\ Len(call.inputs) >= 1
     /\ Len(call.inputs) < call.objs[1].window_size)
       => call.ret.num * Len(call.inputs)
             = call.ret.den * SeqSum(call.inputs)

\* the fourth sample of a filter asked for width 4 and degree 3, whose
\* coefficients are not uniform: the samples differ and their mean 13/4 is
\* returned
C23_Witness ==
    /\ call.fn = "SGFilter"
    /\ call.window_size = 4 /\ call.poly_order = 3
    /\ call.inputs = <<0, 3, 10, 0>>
    /\ call.ret = [num |-> 13, den |-> 4]

RECURSIVE Pow(_, _)
Pow(x, k) == IF k = 0 THEN 1 ELSE x * Pow(x, k - 1)

C24_SMAMean ==
    (call.fn = "SMAFilter" /\ Len(call.inputs) >= 1)
       => LET k == Len(call.inputs)
              m == Min2(k, call.obj.window_size)
          IN  call.ret.num * m
                 = call.ret.den * SeqSum(SubSeq(call.inputs, k - m + 1, k))

\* window 2 after four samples: the first two are gone and the mean of
\* 3 and 0 is returned
C24_Witness ==
    /\ call.fn = "SMAFilter"
    /\ call.obj.window_size = 2
    /\ call.inputs = <<10, 10, 3, 0>>
    /\ call.ret = [num |-> 3, den |-> 2]

----------------------------------------------------------------------------
(* Properties of the reported mode and of the output codes *)

\* C25: a tick with the override disabled and the PWM-enable switch off
\* (sw2 true) reports a mode tag other than "lux", the tag of a tick whose
\* output comes from the automatic lux branch.
C25_IdleTagDistinct ==
    (pc = "publish" /\ ~loc.web_manual_enabled /\ io.sw2)
       => loc.actual_mode # "lux"

\* Python's round(n / d) for d > 0: to the nearest integer, ties to even
RoundDiv(n, d) ==
    LET q == n \div d
        r == n - q * d
    IN  IF 2 * r < d THEN q
        ELSE IF 2 * r > d THEN q + 1
        ELSE IF q % 2 = 0 THEN q ELSE q + 1

\* C26: with min_val < max_val, map_to_led(value, min_val, max_val) is
\* round(f * 255) for f = clamp((value - min_val) / (max_val - min_val), 0, 1).
C26_RoundedCode ==
    LedDone
       => call.ret =
            IF call.value <= call.min_val THEN 0
            ELSE IF call.value >= call.max_val THEN 255
            ELSE RoundDiv((call.value - call.min_val) * 255,
                          call.max_val - call.min_val)

\* floor(num / den + 0.5) for den > 0
FloorHalf(num, den) == (2 * num + den) \div (2 * den)

\* the arbitration was evaluated with the override disabled and the
\* PWM-enable switch on
ArbAuto ==
    /\ call.fn = "arbitrate" /\ call.done
    /\ ~call.web_manual_enabled /\ ~call.sw2

\* C27: with the override disabled and the PWM-enable switch on, analog
\* mode commands min(1023, floor(pot * 1023 + 0.5)) for pot = adc / 1023,
\* and lux mode commands
\* min(1023, floor(clamp(clamped_lux / SCALE_CONSTANT, 0, 1) * 1023 + 0.5)):
\* 0 for lux <= 0, MAX_PWM_VALUE for lux >= SCALE_CONSTANT, and never less
\* for a larger lux.
C27_PwmNormalization ==
    /\ []((ArbAuto /\ call.sw1)
            => call.ret.pwm = Min2(1023, FloorHalf(call.pot * 1023, 1023)))
    /\ []((ArbAuto /\ ~call.sw1)
            => /\ call.ret.pwm =
                    Min2(1023,
                         FloorHalf(Max2(0, Min2(call.clamped_lux,
                                                SCALE_CONSTANT)) * 1023,
                                   SCALE_CONSTANT))
               /\ call.clamped_lux <= 0 => call.ret.pwm = 0
               /\ call.clamped_lux >= SCALE_CONSTANT
                     => call.ret.pwm = MAX_PWM_VALUE)
    /\ [][(ArbAuto /\ ~call.sw1 /\ ArbAuto' /\ ~call'.sw1
             /\ call'.clamped_lux >= call.clamped_lux)
          => call'.ret.pwm >= call.ret.pwm]_vars

\* lux mode on a clamped lux of 2: 2 / 2750 * 1023 = 0.74 is rounded up to 1
C27_Witness ==
    /\ ArbAuto /\ ~call.sw1
    /\ call.clamped_lux = 2
    /\ call.ret.pwm = 1

----------------------------------------------------------------------------
(* Properties of the clamp as a whole *)

\* C30: from a fresh IOController, by calls of get_clamped_lux only, every
\* call returns its argument, also once the buffer is full: the argument
\* is in the window when the bounds are recomputed, so it lies between
\* live_min and live_max at the clamp check.
C30_ClampReturnsArgument ==
    Len(clamp_calls) >= 1
       => LET raw_lux == clamp_calls[Len(clamp_calls)]
          IN  /\ clamp_ret = raw_lux
              /\ io.live_min <= raw_lux
              /\ raw_lux <= io.live_max

\* the buffer is full of 500s and the call passes -40, below all of them
C30_Witness ==
    /\ Len(clamp_calls) = LUX_BUFFER_SIZE + 1
    /\ \A i \in 1..LUX_BUFFER_SIZE : clamp_calls[i] = 500
    /\ clamp_calls[LUX_BUFFER_SIZE + 1] = -40
    /\ io.buffer_count = LUX_BUFFER_SIZE
    /\ clamp_ret = -40

C31_RingBookkeeping ==
    LET k == Len(clamp_calls)
    IN  /\ io.buffer_index = k % LUX_BUFFER_SIZE
        /\ io.buffer_count = Min2(k, LUX_BUFFER_SIZE)
        /\ io.buffer_index \in 0..(LUX_BUFFER_SIZE - 1)
        /\ io.buffer_count \in 0..LUX_BUFFER_SIZE
        /\ DOMAIN io.lux_buffer = 0..(LUX_BUFFER_SIZE - 1)
        /\ \A m \in 1..k :
              m > k - LUX_BUFFER_SIZE
                 => io.lux_buffer[(m - 1) % LUX_BUFFER_SIZE] = clamp_calls[m]

\* the call after the buffer filled: the first sample, 1000, was the oldest
\* and slot 0 now holds the -40 of this call
C31_Witness ==
    /\ Len(clamp_calls) = LUX_BUFFER_SIZE + 1
    /\ clamp_calls[1] = 1000
    /\ clamp_calls[2] = 100
    /\ clamp_calls[LUX_BUFFER_SIZE + 1] = -40
    /\ io.lux_buffer[0] = -40
    /\ io.lux_buffer[1] = 100
    /\ io.buffer_index = 1

----------------------------------------------------------------------------
(* Properties of gg.py *)

\* C39: in auto mode with the LED switch on, an iteration of gg.py's loop
\* in which no new valid packet is available reuses the previous sample:
\* the duty cycle is the one derived from the last valid lux reading, and
\* is not driven to 0.
C39_NoPacketKeepsDuty ==
    [][(/\ call.fn = "gg"
        /\ call'.iters = call.iters + 1
        /\ call'.auto_mode /\ call'.led_switch_on
        /\ call'.packet \in {"none", "short", "badnum", "raised"}
        /\ call.valid >= 0)
       => call'.duty_cycle = call.valid]_vars

----------------------------------------------------------------------------
(* Properties of the web thread *)

\* C36: once every POST /api/control request in flight has completed, the
\* cached current_state fields web_manual_enabled and web_manual_pwm equal
\* the pair held in the system_state row of the database.
C36_CacheMatchesRow ==
    (\A h \in DOMAIN post : post[h].pc \in {"idle", "error"})
       => /\ current_state.web_manual_enabled <=> db.web_manual_enabled = 1
          /\ current_state.web_manual_pwm = db.web_manual_pwm

\* the main thread publishes the snapshot of its tick
IsPublishStep == pc = "publish" /\ pc' = "sleep"

\* C37: a status snapshot is never torn: raw_lux, clamped_lux, pwm_value,
\* mode, bounds_min, bounds_max, pot_value, sw1 and sw2 of current_state
\* are written together by the update_current_state call of one tick, from
\* the values of that tick, pwm_value being the value the tick passed to
\* io.set_pwm; that call leaves web_manual_enabled and web_manual_pwm as
\* they were, and nothing else writes the tick fields.
C37_SnapshotOfOneTick ==
    /\ [][IsPublishStep
            => current_state' =
                 [raw_lux |-> loc.raw_lux, clamped_lux |-> loc.clamped_lux,
                  pwm_value |-> pwm_out, mode |-> loc.actual_mode,
                  bounds_min |-> io.live_min, bounds_max |-> io.live_max,
                  pot_value |-> io.pot_value, sw1 |-> io.sw1,
                  sw2 |-> io.sw2,
                  web_manual_enabled |-> current_state.web_manual_enabled,
                  web_manual_pwm |-> current_state.web_manual_pwm]]_vars
    /\ [][~IsPublishStep
            => current_state' =
                 [current_state EXCEPT
                    !.web_manual_enabled = current_state'.web_manual_enabled,
                    !.web_manual_pwm = current_state'.web_manual_pwm]]_vars

\* the snapshot of a tick in analog mode, published after a POST cached an
\* override pwm of 300 with the override disabled: the tick fields are
\* those of the tick and the cached override fields are still there
C37_Witness ==
    /\ pc = "sleep"
    /\ ticks = 1
    /\ current_state.mode = "analog"
    /\ current_state.pwm_value = 512 /\ pwm_out = 512
    /\ current_state.sw1 /\ ~current_state.sw2
    /\ current_state.pot_value = 512
    /\ ~current_state.web_manual_enabled
    /\ current_state.web_manual_pwm = 300

\* the rows of lux_history inside the requested range, oldest first
RowsInRange ==
    SelectSeq(call.db.lux_history,
              LAMBDA r : /\ call.start_time # NoTime
                            => r.timestamp >= call.start_time
                         /\ call.end_time # NoTime
                            => r.timestamp <= call.end_time)

\* C38: the history log is append-only and ordered: log_reading adds
\* exactly one row and changes no row already there; get_latest_reading
\* returns the row logged last; get_history(limit = L) returns at most L
\* rows, the most recent ones of the requested time range, in ascending
\* timestamp order; get_web_control_state after set_web_control_state
\* returns the pair written; system_state always holds exactly one row.
C38_HistoryLog ==
    /\ [][call'.op = "log_reading" /\ call' # call
            => /\ Len(call'.db.lux_history) = Len(call.db.lux_history) + 1
               /\ SubSeq(call'.db.lux_history, 1, Len(call.db.lux_history))
                     = call.db.lux_history]_vars
    /\ []((call.fn = "Database" /\ call.op = "get_latest_reading"
             /\ call.db.lux_history # <<>>)
            => call.ret = <<call.db.lux_history[Len(call.db.lux_history)]>>)
    /\ []((call.fn = "Database" /\ call.op = "get_history")
            => LET n == Len(RowsInRange)
               IN  /\ Len(call.ret) <= Max2(call.limit, 0)
                   /\ call.ret = SubSeq(RowsInRange,
                                        n - Min2(n, Max2(call.limit, 0)) + 1,
                                        n)
                   /\ \A i \in 1..(Len(call.ret) - 1) :
                         call.ret[i].timestamp <= call.ret[i + 1].timestamp)
    /\ []((call.fn = "Database" /\ call.op = "get_web_control_state")
            => call.ret = <<call.written>>)
    /\ [](call.fn = "Database"
            => Cardinality(DOMAIN call.db.system_state) = 1)

\* C34: broadcast_sse never blocks its caller: a subscriber queue never
\* holds more than its capacity (100 in the source); a broadcast appends
\* the message to every subscriber whose queue has room and removes from
\* sse_subscribers every subscriber whose queue is full; a subscriber once
\* removed is never subscribed again, so no later broadcast reaches it.
C34_BroadcastNeverBlocks ==
    /\ [](call.fn = "sse"
            => /\ \A c \in Clients : Len(call.q[c]) <= QueueMax
               /\ call.upd = "broadcast" => ENABLED BroadcastSse)
    /\ [][(call.upd = "broadcast" /\ call'.upd = "idle")
          => \A c \in Clients :
                IF c \in call.sse_subscribers /\ Len(call.q[c]) < QueueMax
                THEN /\ call'.q[c] = Append(call.q[c], call.state_copy)
                     /\ c \in call'.sse_subscribers
                ELSE /\ call'.q[c] = call.q[c]
                     /\ c \notin call'.sse_subscribers]_vars
    /\ [][\A c \in Clients :
            (call.gen[c] # "new" /\ c \notin call.sse_subscribers)
               => c \notin call'.sse_subscribers]_vars

\* a subscriber that has not been served yet was dropped by the broadcast
\* that found its queue full: its generator is still open, the queue holds
\* the first QueueMax snapshots and the later one is not in it
C34_Witness ==
    /\ call.fn = "sse"
    /\ call.gen[1] = "state_lock"
    /\ 1 \notin call.sse_subscribers
    /\ Len(call.q[1]) = QueueMax
    /\ call.q[1][QueueMax] = QueueMax
    /\ call.updates = QueueMax + 1

\* C35: the snapshots one sse_stream yields, the initial state and then the
\* queued broadcasts, never go back in time: each has a timestamp at least
\* that of the one yielded before it, also when update_current_state runs
\* while the stream is being subscribed.
C35_StreamInOrder ==
    [][\A c \in Clients : call'.yielded[c] >= call.yielded[c]]_vars

\* C28: the control loop never blocks indefinitely on the web thread: every
\* call of update_current_state eventually acquires state_lock and returns,
\* whatever the clients of /api/stream do, and no sse_stream generator
\* holds state_lock while it is suspended at a yield.
C28_UpdateNeverBlocked ==
    /\ [](call.fn = "sse"
            => \A c \in Clients :
                  call.gen[c] \in {"yield_initial", "yield_message",
                                   "yield_keepalive"}
                     => call.state_lock # c)
    /\ ((call.fn = "sse" /\ call.upd = "state_lock")
          ~> (call.fn = "sse" /\ call.upd = "idle"))

====
